---- MODULE Spec2Model ----
(***************************************************************************)
(* A model of csv2sav: the simple-compression SAV encoder (sav_writer.rs)  *)
(* and the CSV -> ZSAV conversion driver (converter.rs).                   *)
(*                                                                         *)
(* Bytes are naturals 0..255, byte strings are sequences of bytes.  A      *)
(* finite f64 is a dyadic rational [m, x] standing for m * 2^x, kept       *)
(* normalised (m odd, or m = 0 and x = 0).                                 *)
(***************************************************************************)
EXTENDS Integers, Sequences, FiniteSets, TLC

VARIABLES
    \* ---- SavWriter (sav_writer.rs) ----
    cols,           \* SavWriter.cols
    writer,         \* SavWriter.writer: the bytes the sink has received
    opcode_buf,     \* SavWriter.opcode_buf
    opcode_count,   \* SavWriter.opcode_count
    raw_buf,        \* SavWriter.raw_buf
    sav_pc,         \* "open" after new, "finished" after finish
    sav_result,     \* what the last call returned: "Ok" or "Err"
    sav_rows,       \* history: number of write_row calls so far
    pushed,         \* history: every segment pushed so far, as [op, raw]
    dict_len,       \* history: the sink's length when new returned
    last_values,    \* history: the argument of the last write_row
    last_pushed,    \* history: Len(pushed) before the last write_row
    \* ---- convert_csv_to_zsav (converter.rs) ----
    pc,             \* the driver's position
    src_rows,       \* number of records the source holds
    total_rows,     \* total_rows, the counting pass's result
    ncases,         \* the row count Writer::new_zsav was given (-2: not yet)
    bytes_read,     \* CountingReader.bytes_read
    file_size,      \* csv_schema.file_size
    progress,       \* history: the arguments of every on_progress call
    row_count,      \* row_count
    cancelled,      \* the AtomicBool
    file_exists,    \* whether the output path names a file
    zsav,           \* the Writer: "none", "open", "finished", "dropped"
    rows_written,   \* number of write_row calls that returned Ok
    row_started,    \* history: the last record number handed to write_row
    result,         \* what convert_csv_to_zsav returned ("" while running):
                    \* "Ok", "Cancelled", or the step whose error it returned
    \* ---- infer_schema (schema.rs) ----
    inf_pc,         \* infer_schema's position
    csv_src,        \* the CSV source: its header row and its records
    sample_rows,    \* the sample_rows argument
    inf_cancelled,  \* the AtomicBool
    headers,        \* headers
    col_infos,      \* col_infos
    sampled_rows,   \* sampled_rows
    yielded,        \* number of items reader.records() has yielded
    item_ok,        \* whether the item in hand is Ok(record)
    cancel_loads,   \* history: number of loads of the flag
    observed,       \* history: the numbers of the records observed, in order
    schema,         \* the CsvSchema returned (NoSchema until then)
    inf_result,     \* what infer_schema returned ("" while running)
    \* ---- make_col_defs (converter.rs) ----
    cd_pc,          \* "call" before make_col_defs, "done" after
    cd_schema,      \* the CsvSchema argument
    col_defs,       \* the Vec<ColDef> returned
    \* ---- the field mapping of the writing pass (converter.rs) ----
    row_pc,         \* "map" before a record is mapped, "done" after
    col_types,      \* csv_schema.col_types
    record,         \* the record's fields
    string_buf,     \* string_buf
    row_values,     \* row_values
    \* ---- the cancel request, observed ----
    rows_at_cancel, \* history: rows_written when the flag was set (-1: not
                    \* set, or not recorded)
    \* ---- the commands (lib.rs) ----
    cancel_flag,    \* the AtomicBool of the managed CancelFlag
    lib_pc,         \* each convert_csv_to_sav invocation's position
    records_left,   \* records infer_schema has still to read, per invocation
    lib_result,     \* what each invocation's blocking task returned
    aimed           \* history: the invocations a cancel request was meant for

savVars == <<cols, writer, opcode_buf, opcode_count, raw_buf, sav_pc,
             sav_result, sav_rows, pushed, dict_len, last_values,
             last_pushed>>
convVars == <<pc, src_rows, total_rows, ncases, bytes_read, file_size, progress,
              row_count, cancelled, file_exists, zsav, rows_written,
              row_started, result>>
inferVars == <<inf_pc, csv_src, sample_rows, inf_cancelled, headers, col_infos,
               sampled_rows, yielded, item_ok, cancel_loads, observed, schema,
               inf_result>>
colDefsVars == <<cd_pc, cd_schema, col_defs>>
rowVars == <<row_pc, col_types, record, string_buf, row_values>>
obsVars == <<rows_at_cancel>>
libVars == <<cancel_flag, lib_pc, records_left, lib_result, aimed>>
vars == <<savVars, convVars, inferVars, colDefsVars, rowVars, obsVars, libVars>>
nonSavVars == <<convVars, inferVars, colDefsVars, rowVars, obsVars, libVars>>
nonConvVars == <<savVars, inferVars, colDefsVars, rowVars, obsVars, libVars>>
nonInferVars == <<savVars, convVars, colDefsVars, rowVars, obsVars, libVars>>
nonColDefsVars == <<savVars, convVars, inferVars, rowVars, obsVars, libVars>>
nonRowVars == <<savVars, convVars, inferVars, colDefsVars, obsVars, libVars>>
nonLibVars == <<savVars, convVars, inferVars, colDefsVars, rowVars, obsVars>>

----------------------------------------------------------------------------
(* Program constants.                                                      *)

BIAS == 100
REC_TYPE_VARIABLE == 2
REC_TYPE_DICT_TERMINATOR == 999
OP_RAW == 0
OP_SYSMIS == 255
OP_SPACES == 254
CANCEL_CHECK_INTERVAL == 1000
CSV_BUF_SIZE == 524288
PROGRESS_INTERVAL == 10000
MAX_STRING_WIDTH == 32767

(* Bounds of the model.                                                    *)

MaxCols == 2        \* columns of a SavWriter
MaxRowsSav == 2     \* write_row calls on a SavWriter
MaxWidth == 17      \* widest string column
MaxFieldLen == 18   \* longest string field handed to write_row
MaxSrcRows == 20001 \* records of a CSV source
MaxCancelRows == 2000 \* records of a source whose conversion is cancelled
MaxInvocations == 2   \* invocations of convert_csv_to_sav
MaxLibRecords == 2    \* records of a source an invocation converts
RecLen == 128       \* bytes of one line of a CSV source

----------------------------------------------------------------------------
(* Bytes and byte strings.                                                 *)

SP == 32            \* b' '
Min(a, b) == IF a < b THEN a ELSE b
Rep(b, n) == [i \in 1..n |-> b]

RECURSIVE SumSeq(_)
SumSeq(s) == IF s = <<>> THEN 0 ELSE Head(s) + SumSeq(Tail(s))

RECURSIVE Flatten(_)
Flatten(ss) == IF ss = <<>> THEN <<>> ELSE Head(ss) \o Flatten(Tail(ss))

\* i32::to_le_bytes (two's complement)
I32ToLeBytes(v) ==
    LET u == IF v < 0 THEN (v + 2147483647) + 1 ELSE v
        top == (u \div 16777216) + (IF v < 0 THEN 128 ELSE 0)
    IN  << u % 256, (u \div 256) % 256, (u \div 65536) % 256, top >>

\* i32::from_le_bytes of buf[offset .. offset + 4], offset counted from 0
read_i32(buf, offset) ==
    LET b(i) == buf[offset + i]
        low == b(1) + 256 * b(2) + 65536 * b(3)
    IN  IF b(4) >= 128
        THEN ((b(4) - 128) * 16777216 + low - 2147483647) - 1
        ELSE b(4) * 16777216 + low

----------------------------------------------------------------------------
(* f64.  A finite double is [m, x] = m * 2^x, normalised.  The model's     *)
(* doubles are the integers, the fractions that are multiples of           *)
(* 2^-FracBits, and the values m * 2^-TinyBits.                            *)

FracBits == 4
TinyBits == 60

RECURSIVE Norm(_, _)
Norm(m, x) == IF m = 0 THEN [m |-> 0, x |-> 0]
              ELSE IF m % 2 = 0 THEN Norm(m \div 2, x + 1)
              ELSE [m |-> m, x |-> x]

F64(i) == Norm(i, 0)
Abs(i) == IF i < 0 THEN -i ELSE i

RECURSIVE Log2(_)
Log2(n) == IF n <= 1 THEN 0 ELSE 1 + Log2(n \div 2)

\* a + b in round-to-nearest-even, for b an integer double in [64, 128),
\* whose ulp is 2^-46.  An addend of magnitude below 2^-47 (half an ulp) is
\* absorbed; every other sum of the model's doubles is exact.
F64Add(a, b) ==
    IF a.m # 0 /\ a.x + Log2(Abs(a.m)) < -47
    THEN b
    ELSE IF a.x >= 0
         THEN Norm(a.m * 2^(a.x) + b.m * 2^(b.x), 0)
         ELSE Norm(a.m + b.m * 2^(b.x - a.x), a.x)

\* f64 comparisons and fract() on the results of F64Add
F64Scaled(a) == IF a.x >= 0 THEN a.m * 2^(a.x + FracBits)
                ELSE a.m * 2^(FracBits + a.x)
F64Ge(a, i) == F64Scaled(a) >= i * 2^FracBits
F64Le(a, i) == F64Scaled(a) <= i * 2^FracBits
F64FractIsZero(a) == a.x >= 0
F64AsU8(a) == a.m * 2^(a.x)

\* f64::to_le_bytes: sign, 11-bit biased exponent, 52-bit fraction
F64ToLeBytes(a) ==
    IF a.m = 0 THEN Rep(0, 8)
    ELSE LET p == Log2(Abs(a.m))
             biased == a.x + p + 1023
             f12 == (Abs(a.m) - 2^p) * 2^(12 - p)
             sign == IF a.m < 0 THEN 128 ELSE 0
         IN  << 0, 0, 0, 0, 0, f12 % 256,
                (biased % 16) * 16 + (f12 \div 256),
                sign + (biased \div 16) >>

\* f64::from_le_bytes, for the doubles F64ToLeBytes produces
F64FromLeBytes(b) ==
    IF b = Rep(0, 8) THEN [m |-> 0, x |-> 0]
    ELSE LET sign == IF b[8] >= 128 THEN -1 ELSE 1
             biased == (b[8] % 128) * 16 + (b[7] \div 16)
             f12 == (b[7] % 16) * 256 + b[6]
         IN  Norm(sign * (4096 + f12), biased - 1023 - 12)

----------------------------------------------------------------------------
(* sav_writer.rs: types.                                                   *)

Numeric == [kind |-> "Numeric"]
String(w) == [kind |-> "String", w |-> w]
ColDef(name, label, col_type) ==
    [name |-> name, label |-> label, col_type |-> col_type]

None == [some |-> FALSE]
Some(v) == [some |-> TRUE, v |-> v]
Number(opt) == [tag |-> "Number", opt |-> opt]
StringV(bytes) == [tag |-> "String", bytes |-> bytes]

\* Mutant of col_segments: the width is rounded down.
col_segments_floor(col_type) ==
    IF col_type.kind = "Numeric" THEN 1 ELSE col_type.w \div 8

\* Number of 8-byte segments a column occupies in the data record.
col_segments(col_type) ==
    IF col_type.kind = "Numeric" THEN 1 ELSE (col_type.w + 7) \div 8

----------------------------------------------------------------------------
(* sav_writer.rs: the dictionary.                                          *)

write_le_i32(v) == I32ToLeBytes(v)
write_le_f64(v) == F64ToLeBytes(v)

write_padded(s, len) ==
    LET copy == Min(Len(s), len)
    IN  SubSeq(s, 1, copy) \o Rep(SP, len - copy)

Magic == <<36, 70, 76, 50>>                                 \* "$FL2"
ProdName == <<64, 40, 35, 41, 32, 83, 80, 83, 83, 32, 68, 65, 84, 65, 32,
              70, 73, 76, 69, 32, 99, 115, 118, 50, 115, 97, 118>>
                                           \* "@(#) SPSS DATA FILE csv2sav"
CreationDate == <<48, 49, 32, 74, 97, 110, 32, 55, 48>>     \* "01 Jan 70"
CreationTime == <<48, 48, 58, 48, 48, 58, 48, 48>>          \* "00:00:00"

\* Mutant of write_header: the 3 trailing padding bytes are left out.
write_header_no_padding(row_width) ==
       Magic
    \o write_padded(ProdName, 60)
    \o write_le_i32(2)
    \o write_le_i32(row_width)
    \o write_le_i32(1)
    \o write_le_i32(0)
    \o write_le_i32(-1)
    \o write_le_f64(F64(BIAS))
    \o write_padded(CreationDate, 9)
    \o write_padded(CreationTime, 8)
    \o write_padded(<<>>, 64)

write_header(row_width) ==
       Magic
    \o write_padded(ProdName, 60)
    \o write_le_i32(2)              \* layout_code
    \o write_le_i32(row_width)      \* nominal_case_size
    \o write_le_i32(1)              \* compression: 1 = simple
    \o write_le_i32(0)              \* weight_index
    \o write_le_i32(-1)             \* ncases: unknown
    \o write_le_f64(F64(BIAS))      \* bias
    \o write_padded(CreationDate, 9)
    \o write_padded(CreationTime, 8)
    \o write_padded(<<>>, 64)       \* file_label
    \o Rep(0, 3)                    \* padding

encode_format(col_type) ==
    IF col_type.kind = "Numeric"
    THEN 5 * 65536 + 8 * 256 + 2
    ELSE 1 * 65536 + Min(col_type.w, 255) * 256

\* One continuation record of a long string.
ContinuationRecord ==
       write_le_i32(REC_TYPE_VARIABLE)
    \o write_le_i32(-1)
    \o write_le_i32(0) \o write_le_i32(0) \o write_le_i32(0) \o write_le_i32(0)
    \o write_padded(Rep(SP, 8), 8)

\* Mutant of VariableRecord: the continuation loop runs from 0, not from 1.
VariableRecord_extra_continuation(col) ==
    LET segments == col_segments(col.col_type)
        type_code == IF col.col_type.kind = "Numeric" THEN 0 ELSE col.col_type.w
        has_label == IF col.label = <<>> THEN 0 ELSE 1
        fmt == encode_format(col.col_type)
        label_len == Min(Len(col.label), 255)
        pad == (4 - (label_len % 4)) % 4
    IN     write_le_i32(REC_TYPE_VARIABLE)
        \o write_le_i32(type_code)
        \o write_le_i32(has_label)
        \o write_le_i32(0)
        \o write_le_i32(fmt)
        \o write_le_i32(fmt)
        \o write_padded(col.name, 8)
        \o (IF has_label = 1
            THEN write_le_i32(label_len) \o SubSeq(col.label, 1, label_len)
                 \o Rep(0, pad)
            ELSE <<>>)
        \o Flatten([i \in 1..segments |-> ContinuationRecord])

\* The records write_variable_records emits for one column.
VariableRecord(col) ==
    LET segments == col_segments(col.col_type)
        type_code == IF col.col_type.kind = "Numeric" THEN 0 ELSE col.col_type.w
        has_label == IF col.label = <<>> THEN 0 ELSE 1
        fmt == encode_format(col.col_type)
        label_len == Min(Len(col.label), 255)
        pad == (4 - (label_len % 4)) % 4
    IN     write_le_i32(REC_TYPE_VARIABLE)
        \o write_le_i32(type_code)
        \o write_le_i32(has_label)
        \o write_le_i32(0)
        \o write_le_i32(fmt)
        \o write_le_i32(fmt)
        \o write_padded(col.name, 8)
        \o (IF has_label = 1
            THEN write_le_i32(label_len) \o SubSeq(col.label, 1, label_len)
                 \o Rep(0, pad)
            ELSE <<>>)
        \o Flatten([i \in 1..(segments - 1) |-> ContinuationRecord])

write_variable_records(cs) == Flatten([i \in 1..Len(cs) |-> VariableRecord(cs[i])])

write_dict_terminator ==
    write_le_i32(REC_TYPE_DICT_TERMINATOR) \o write_le_i32(0)

----------------------------------------------------------------------------
(* sav_writer.rs: the encoder.  A writer value w is the struct's mutable   *)
(* part plus the history of pushed segments.                               *)

\* Mutant of flush_opcodes: the payloads are written before their opcodes.
flush_opcodes_raw_first(w) ==
    [w EXCEPT !.writer = w.writer \o w.raw_buf \o w.opcode_buf,
              !.raw_buf = <<>>,
              !.opcode_buf = Rep(0, 8),
              !.opcode_count = 0]

\* Mutant of flush_opcodes: the opcode block is not reset to zeros.
flush_opcodes_stale_block(w) ==
    [w EXCEPT !.writer = w.writer \o w.opcode_buf \o w.raw_buf,
              !.raw_buf = <<>>,
              !.opcode_count = 0]

flush_opcodes(w) ==
    [w EXCEPT !.writer = w.writer \o w.opcode_buf \o w.raw_buf,
              !.raw_buf = <<>>,
              !.opcode_buf = Rep(0, 8),
              !.opcode_count = 0]

push_opcode(w, op) ==
    LET w1 == [w EXCEPT !.opcode_buf[w.opcode_count + 1] = op,
                        !.opcode_count = w.opcode_count + 1,
                        !.pushed = Append(w.pushed, [op |-> op, raw |-> <<>>])]
    IN  IF w1.opcode_count = 8 THEN flush_opcodes(w1) ELSE w1

push_raw(w, data) ==
    LET w1 == [w EXCEPT !.opcode_buf[w.opcode_count + 1] = OP_RAW,
                        !.opcode_count = w.opcode_count + 1,
                        !.raw_buf = w.raw_buf \o data,
                        !.pushed = Append(w.pushed, [op |-> OP_RAW, raw |-> data])]
    IN  IF w1.opcode_count = 8 THEN flush_opcodes(w1) ELSE w1

push_numeric(w, opt) ==
    IF ~opt.some
    THEN push_opcode(w, OP_SYSMIS)
    ELSE LET n == opt.v
             shifted == F64Add(n, F64(BIAS))
         IN  IF F64Ge(shifted, 1) /\ F64Le(shifted, 251) /\ F64FractIsZero(shifted)
             THEN push_opcode(w, F64AsU8(shifted))
             ELSE push_raw(w, F64ToLeBytes(n))

\* Mutant of push_string_chunk: an all-space chunk is stored raw as well.
push_string_chunk_always_raw(w, chunk) ==
    push_raw(w, chunk \o Rep(SP, 8 - Len(chunk)))

push_string_chunk(w, chunk) ==
    IF \A i \in 1..Len(chunk) : chunk[i] = SP
    THEN push_opcode(w, OP_SPACES)
    ELSE push_raw(w, chunk \o Rep(SP, 8 - Len(chunk)))

RECURSIVE PushChunks(_, _, _)
PushChunks(w, buf, k) ==
    IF 8 * k >= Len(buf) THEN w
    ELSE PushChunks(push_string_chunk(w, SubSeq(buf, 8 * k + 1, Min(8 * k + 8, Len(buf)))),
                    buf, k + 1)

RECURSIVE PushSpaces(_, _)
PushSpaces(w, n) == IF n = 0 THEN w ELSE PushSpaces(push_opcode(w, OP_SPACES), n - 1)

\* One iteration of write_row's loop: the match on (col_type, value).
WriteValue(w, col_type, value) ==
    IF col_type.kind = "Numeric" /\ value.tag = "Number"
    THEN push_numeric(w, value.opt)
    ELSE IF col_type.kind = "String" /\ value.tag = "String"
    THEN LET segments == col_segments(col_type)
             total == segments * 8
             copy_len == Min(Len(value.bytes), col_type.w)
             buf == SubSeq(value.bytes, 1, copy_len) \o Rep(SP, total - copy_len)
         IN  PushChunks(w, buf, 0)
    ELSE IF col_type.kind = "Numeric"
    THEN push_numeric(w, None)
    ELSE PushSpaces(w, col_segments(col_type))

\* write_row's loop over cols.iter().zip(values.iter()), from pair i on.
RECURSIVE ZipLoop(_, _, _, _)
ZipLoop(w, cs, values, i) ==
    IF i > Min(Len(cs), Len(values)) THEN w
    ELSE ZipLoop(WriteValue(w, cs[i].col_type, values[i]), cs, values, i + 1)

\* SavWriter::write_row returns Ok(()) on every path that does no I/O error.
write_row(w, cs, values) == [w |-> ZipLoop(w, cs, values, 1), result |-> "Ok"]

\* Mutant of finish: the pending block is not flushed.
finish_no_flush(w) == w

finish(w) == IF w.opcode_count > 0 THEN flush_opcodes(w) ELSE w

\* SavWriter::new: what the sink holds after construction.
new(cs) ==
    LET row_width == SumSeq([i \in 1..Len(cs) |-> col_segments(cs[i].col_type)])
    IN  [writer |-> write_header(row_width) \o write_variable_records(cs)
                    \o write_dict_terminator,
         opcode_buf |-> Rep(0, 8),
         opcode_count |-> 0,
         raw_buf |-> <<>>,
         pushed |-> <<>>]

----------------------------------------------------------------------------
(* The inputs of the SavWriter specification.                              *)

LetterH == 104
Widths == {1, 8, 9, MaxWidth}
ColTypes == {Numeric} \cup {String(w) : w \in Widths}
Labels == {<<>>, <<97, 103, 101>>}                          \* "", "age"
ColName(i) == <<86, 48 + i>>                                \* "V1", "V2", ...
\* Every list of up to MaxCols columns; the columns of a list share a label.
ColLists ==
    UNION {{[i \in 1..n |-> ColDef(ColName(i), l, ts[i])] :
              ts \in [1..n -> ColTypes], l \in Labels} : n \in 0..MaxCols}

\* The values a row is made of: its numeric columns all get num, its string
\* columns all get str.
Tiny == Norm(1, -TinyBits)
RowKinds ==
    { [num |-> None,              str |-> <<>>],
      [num |-> Some(F64(-100)),   str |-> Rep(SP, 8)],
      [num |-> Some(F64(-99)),    str |-> <<LetterH>>],
      [num |-> Some(F64(151)),    str |-> Rep(SP, 8) \o <<LetterH>>],
      [num |-> Some(F64(152)),    str |-> Rep(LetterH, 9)],
      [num |-> Some(Norm(3, -1)), str |-> Rep(LetterH, MaxFieldLen)],
      [num |-> Some(Tiny),        str |-> Rep(SP, MaxFieldLen - 1) \o <<LetterH>>] }

\* One value per column, each of its column's variant.
TypedRows(cs) ==
    {[i \in 1..Len(cs) |-> IF cs[i].col_type.kind = "Numeric"
                           THEN Number(k.num) ELSE StringV(k.str)] : k \in RowKinds}

\* Rows that break the caller's contract: one value short, one value too
\* many, or with one value of the other variant.
DefaultVal(col_type) ==
    IF col_type.kind = "Numeric" THEN Number(Some(F64(1)))
    ELSE StringV(<<LetterH>>)
OtherVal(col_type) ==
    IF col_type.kind = "Numeric" THEN StringV(<<LetterH>>)
    ELSE Number(Some(Norm(3, -1)))
DefaultRow(cs) == [i \in 1..Len(cs) |-> DefaultVal(cs[i].col_type)]
BadRows(cs) ==
    {SubSeq(DefaultRow(cs), 1, Len(cs) - 1) : n \in 1..Min(1, Len(cs))}
    \cup {Append(DefaultRow(cs), Number(None))}
    \cup {[DefaultRow(cs) EXCEPT ![i] = OtherVal(cs[i].col_type)] : i \in 1..Len(cs)}

----------------------------------------------------------------------------
(* The SavWriter specification: new, then write_row calls, then finish.    *)

W == [writer |-> writer, opcode_buf |-> opcode_buf, opcode_count |-> opcode_count,
      raw_buf |-> raw_buf, pushed |-> pushed]

SetW(w) ==
    /\ writer' = w.writer
    /\ opcode_buf' = w.opcode_buf
    /\ opcode_count' = w.opcode_count
    /\ raw_buf' = w.raw_buf
    /\ pushed' = w.pushed

NoSchema == [headers |-> <<>>, col_types |-> <<>>, file_size |-> 0,
             truncated_cols |-> <<>>]

ColDefsIdle == cd_pc = "idle" /\ cd_schema = NoSchema /\ col_defs = <<>>

Invocations == 1..MaxInvocations

LibIdle ==
    /\ cancel_flag = FALSE
    /\ lib_pc = [t \in Invocations |-> "idle"]
    /\ records_left = [t \in Invocations |-> 0]
    /\ lib_result = [t \in Invocations |-> ""]
    /\ aimed = [t \in Invocations |-> FALSE]

RowIdle ==
    /\ row_pc = "idle" /\ col_types = <<>> /\ record = <<>>
    /\ string_buf = <<>> /\ row_values = <<>>

InferIdle ==
    /\ inf_pc = "idle" /\ csv_src = [headers |-> <<>>, records |-> <<>>]
    /\ sample_rows = 0 /\ inf_cancelled = FALSE /\ headers = <<>>
    /\ col_infos = <<>> /\ sampled_rows = 0 /\ yielded = 0 /\ item_ok = TRUE
    /\ cancel_loads = 0 /\ observed = <<>> /\ schema = NoSchema
    /\ inf_result = ""

ConvIdle ==
    /\ pc = "idle" /\ src_rows = 0 /\ total_rows = 0
    /\ ncases = -2 /\ bytes_read = 0 /\ file_size = 0 /\ progress = <<>>
    /\ row_count = 0 /\ cancelled = FALSE /\ file_exists = FALSE
    /\ zsav = "none" /\ rows_written = 0 /\ row_started = 0 /\ result = ""
    /\ rows_at_cancel = -1

SavInit ==
    /\ cols \in ColLists
    /\ LET w == new(cols)
       IN  /\ writer = w.writer
           /\ opcode_buf = w.opcode_buf
           /\ opcode_count = w.opcode_count
           /\ raw_buf = w.raw_buf
           /\ pushed = w.pushed
           /\ dict_len = Len(w.writer)
    /\ sav_pc = "open"
    /\ sav_result = "Ok"
    /\ sav_rows = 0
    /\ last_values = <<>>
    /\ last_pushed = 0
    /\ ConvIdle
    /\ InferIdle
    /\ ColDefsIdle
    /\ RowIdle
    /\ LibIdle

SavWriteRow ==
    /\ sav_pc = "open"
    /\ sav_rows < MaxRowsSav
    /\ \E values \in TypedRows(cols) \cup BadRows(cols) :
         LET r == write_row(W, cols, values)
         IN  /\ SetW(r.w)
             /\ sav_result' = r.result
             /\ last_values' = values
    /\ last_pushed' = Len(pushed)
    /\ sav_rows' = sav_rows + 1
    /\ UNCHANGED <<cols, sav_pc, dict_len>>
    /\ UNCHANGED nonSavVars

SavFinish ==
    /\ sav_pc = "open"
    /\ SetW(finish(W))
    /\ sav_pc' = "finished"
    /\ sav_result' = "Ok"
    /\ UNCHANGED <<cols, sav_rows, dict_len, last_values, last_pushed>>
    /\ UNCHANGED nonSavVars

SavNext == SavWriteRow \/ SavFinish

SavSpec == SavInit /\ [][SavNext]_vars

----------------------------------------------------------------------------
(* converter.rs: convert_csv_to_zsav, one action per step of the function. *)
(* The cancel flag is set by the cancel_conversion command on another      *)
(* thread, at any moment.  File and CSV operations fail nondeterministically *)
(* (an I/O error); removing the output file succeeds.                      *)

\* Source lengths around the multiples of the two intervals.
SrcLens ==
    {n \in 0..MaxSrcRows :
        \/ n <= 1
        \/ n <= 2 * CANCEL_CHECK_INTERVAL + 1
           /\ n % CANCEL_CHECK_INTERVAL \in {0, 1, CANCEL_CHECK_INTERVAL - 1}
        \/ n % PROGRESS_INTERVAL \in {0, 1}}

\* The size of a source of n records: a header line and n record lines.
SrcBytes(n) == (n + 1) * RecLen

\* What one call of CountingReader::read for the BufReader's buffer returns
\* and leaves in bytes_read: a full buffer or a short read, never more than
\* the file still holds.
ReadLens == {CSV_BUF_SIZE, CSV_BUF_SIZE \div 2}
CountingRead(n) == bytes_read + Min(n, SrcBytes(src_rows) - bytes_read)

\* The BufReader has to be refilled before the record after row_count can be
\* parsed: its buffer holds no complete unread line.
NeedsRead == bytes_read \div RecLen < row_count + 2

SavIdle ==
    /\ cols = <<>> /\ writer = <<>> /\ opcode_buf = <<>> /\ opcode_count = 0
    /\ raw_buf = <<>> /\ sav_pc = "idle" /\ sav_result = "Ok" /\ sav_rows = 0
    /\ pushed = <<>> /\ dict_len = 0 /\ last_values = <<>> /\ last_pushed = 0

ConvInit ==
    /\ pc = "count"
    /\ src_rows \in SrcLens
    /\ total_rows = 0
    /\ ncases = -2
    /\ bytes_read = 0
    /\ file_size = SrcBytes(src_rows)
    /\ progress = <<>>
    /\ row_count = 0
    /\ cancelled = FALSE
    /\ file_exists = FALSE
    /\ zsav = "none"
    /\ rows_written = 0
    /\ row_started = 0
    /\ result = ""
    /\ rows_at_cancel = -1
    /\ SavIdle
    /\ InferIdle
    /\ ColDefsIdle
    /\ RowIdle
    /\ LibIdle

\* return Err(..) / Ok(..): the Writer, if it is still open, is dropped.
Return(r) ==
    /\ result' = r
    /\ pc' = "done"
    /\ zsav' = IF zsav = "open" THEN "dropped" ELSE zsav

\* cancel_conversion (lib.rs): flag.0.store(true)
Cancel ==
    /\ pc # "done"
    /\ cancelled = FALSE
    /\ cancelled' = TRUE
    /\ UNCHANGED <<pc, src_rows, total_rows, row_count, file_exists, zsav,
                   rows_written, row_started, result>>
    /\ UNCHANGED <<ncases, bytes_read, file_size, progress>>
    /\ UNCHANGED nonConvVars

\* let total_rows = schema::count_rows(input, cancelled)?;
ConvCountRows ==
    /\ pc = "count"
    /\ \/ /\ total_rows' = src_rows
          /\ pc' = "check0"
          /\ UNCHANGED <<result, zsav>>
       \/ /\ cancelled
          /\ Return("Cancelled")
          /\ UNCHANGED total_rows
       \/ /\ Return("ErrCount")
          /\ UNCHANGED total_rows
    /\ UNCHANGED <<src_rows, row_count, cancelled, file_exists, rows_written,
                   row_started>>
    /\ UNCHANGED <<ncases, bytes_read, file_size, progress>>
    /\ UNCHANGED nonConvVars

\* if cancelled.load(Relaxed) { return Err("Cancelled") }
ConvCheck0 ==
    /\ pc = "check0"
    /\ IF cancelled
       THEN Return("Cancelled")
       ELSE pc' = "create" /\ UNCHANGED <<result, zsav>>
    /\ UNCHANGED <<src_rows, total_rows, row_count, cancelled, file_exists,
                   rows_written, row_started>>
    /\ UNCHANGED <<ncases, bytes_read, file_size, progress>>
    /\ UNCHANGED nonConvVars

\* let col_defs = make_col_defs(csv_schema); File::create(output)?
ConvCreate ==
    /\ pc = "create"
    /\ \/ /\ file_exists' = TRUE
          /\ pc' = "new_zsav"
          /\ UNCHANGED <<result, zsav>>
       \/ /\ Return("ErrCreate")
          /\ UNCHANGED file_exists
    /\ UNCHANGED <<src_rows, total_rows, row_count, cancelled, rows_written,
                   row_started>>
    /\ UNCHANGED <<ncases, bytes_read, file_size, progress>>
    /\ UNCHANGED nonConvVars

\* Mutant of ConvNewZsav: the encoder is told the row count is unknown.
ConvNewZsav_ncases_unknown ==
    /\ pc = "new_zsav"
    /\ \/ /\ zsav' = "open"
          /\ ncases' = -1
          /\ pc' = "open_csv"
          /\ UNCHANGED result
       \/ /\ Return("ErrInit")
          /\ UNCHANGED ncases
    /\ UNCHANGED <<src_rows, total_rows, row_count, cancelled, file_exists,
                   rows_written, row_started>>
    /\ UNCHANGED <<bytes_read, file_size, progress>>
    /\ UNCHANGED nonConvVars

\* Writer::new_zsav(out_file, &col_defs, total_rows)?
ConvNewZsav ==
    /\ pc = "new_zsav"
    /\ \/ /\ zsav' = "open"
          /\ ncases' = total_rows
          /\ pc' = "open_csv"
          /\ UNCHANGED result
       \/ /\ Return("ErrInit")
          /\ UNCHANGED ncases
    /\ UNCHANGED <<src_rows, total_rows, row_count, cancelled, file_exists,
                   rows_written, row_started>>
    /\ UNCHANGED <<bytes_read, file_size, progress>>
    /\ UNCHANGED nonConvVars

\* File::open(input)?, the counting and buffered readers, csv::Reader
ConvOpenCsv ==
    /\ pc = "open_csv"
    /\ \/ /\ pc' = "read"
          /\ UNCHANGED <<result, zsav>>
       \/ Return("ErrOpen")
    /\ UNCHANGED <<src_rows, total_rows, row_count, cancelled, file_exists,
                   rows_written, row_started>>
    /\ UNCHANGED <<ncases, bytes_read, file_size, progress>>
    /\ UNCHANGED nonConvVars

\* for result in reader.records() { let record = result?; row_count += 1;
ConvRead ==
    /\ pc = "read"
    /\ IF NeedsRead
       THEN \E n \in ReadLens : bytes_read' = CountingRead(n)
       ELSE UNCHANGED bytes_read
    /\ IF row_count = src_rows
       THEN /\ pc' = "finish"
            /\ UNCHANGED <<row_count, result, zsav>>
       ELSE \/ /\ row_count' = row_count + 1
               /\ pc' = "cancel_check"
               /\ UNCHANGED <<result, zsav>>
            \/ /\ Return("ErrRead")
               /\ UNCHANGED row_count
    /\ UNCHANGED <<src_rows, total_rows, cancelled, file_exists, rows_written,
                   row_started>>
    /\ UNCHANGED <<ncases, file_size, progress>>
    /\ UNCHANGED nonConvVars

\* Mutant of ConvCancelCheck: on cancellation the file is removed while the
\* encoder is still open.
ConvCancelCheck_no_drop ==
    /\ pc = "cancel_check"
    /\ IF row_count % CANCEL_CHECK_INTERVAL = 0 /\ cancelled
       THEN pc' = "cancel_remove"
       ELSE pc' = "write"
    /\ UNCHANGED <<src_rows, total_rows, row_count, cancelled, file_exists, zsav,
                   rows_written, row_started, result>>
    /\ UNCHANGED <<ncases, bytes_read, file_size, progress>>
    /\ UNCHANGED nonConvVars

\* Mutant of ConvCancelCheck: the flag is read at the progress interval.
ConvCancelCheck_progress_interval ==
    /\ pc = "cancel_check"
    /\ IF row_count % PROGRESS_INTERVAL = 0 /\ cancelled
       THEN pc' = "cancel_drop"
       ELSE pc' = "write"
    /\ UNCHANGED <<src_rows, total_rows, row_count, cancelled, file_exists, zsav,
                   rows_written, row_started, result>>
    /\ UNCHANGED <<ncases, bytes_read, file_size, progress>>
    /\ UNCHANGED nonConvVars

\* if row_count % CANCEL_CHECK_INTERVAL == 0 && cancelled.load(Relaxed) {
ConvCancelCheck ==
    /\ pc = "cancel_check"
    /\ IF row_count % CANCEL_CHECK_INTERVAL = 0 /\ cancelled
       THEN pc' = "cancel_drop"
       ELSE pc' = "write"
    /\ UNCHANGED <<src_rows, total_rows, row_count, cancelled, file_exists, zsav,
                   rows_written, row_started, result>>
    /\ UNCHANGED <<ncases, bytes_read, file_size, progress>>
    /\ UNCHANGED nonConvVars

\*     drop(writer);
ConvCancelDrop ==
    /\ pc = "cancel_drop"
    /\ zsav' = "dropped"
    /\ pc' = "cancel_remove"
    /\ UNCHANGED <<src_rows, total_rows, row_count, cancelled, file_exists,
                   rows_written, row_started, result>>
    /\ UNCHANGED <<ncases, bytes_read, file_size, progress>>
    /\ UNCHANGED nonConvVars

\*     let _ = std::fs::remove_file(output); return Err("Cancelled"); }
ConvCancelRemove ==
    /\ pc = "cancel_remove"
    /\ file_exists' = FALSE
    /\ Return("Cancelled")
    /\ UNCHANGED <<src_rows, total_rows, row_count, cancelled, rows_written,
                   row_started>>
    /\ UNCHANGED <<ncases, bytes_read, file_size, progress>>
    /\ UNCHANGED nonConvVars

\* the field mapping, then writer.write_row(&row_values)?
ConvWrite ==
    /\ pc = "write"
    /\ row_started' = row_count
    /\ \/ /\ rows_written' = rows_written + 1
          /\ pc' = "progress"
          /\ UNCHANGED <<result, zsav>>
       \/ /\ Return("ErrWrite")
          /\ UNCHANGED rows_written
    /\ UNCHANGED <<src_rows, total_rows, row_count, cancelled, file_exists>>
    /\ UNCHANGED <<ncases, bytes_read, file_size, progress>>
    /\ UNCHANGED nonConvVars

\* the arguments of one on_progress call
on_progress(rows, bytes, size) ==
    [row_count |-> rows, bytes_read |-> bytes, file_size |-> size]

\* Mutant of ConvProgress: progress is reported at the cancel-check interval.
ConvProgress_cancel_interval ==
    /\ pc = "progress"
    /\ progress' = IF row_count % CANCEL_CHECK_INTERVAL = 0
                   THEN Append(progress, on_progress(row_count, bytes_read,
                                                     file_size))
                   ELSE progress
    /\ pc' = "read"
    /\ UNCHANGED <<src_rows, total_rows, row_count, cancelled, file_exists, zsav,
                   rows_written, row_started, result>>
    /\ UNCHANGED <<ncases, bytes_read, file_size>>
    /\ UNCHANGED nonConvVars

\* if row_count % PROGRESS_INTERVAL == 0 { on_progress(..) } }
ConvProgress ==
    /\ pc = "progress"
    /\ progress' = IF row_count % PROGRESS_INTERVAL = 0
                   THEN Append(progress, on_progress(row_count, bytes_read,
                                                     file_size))
                   ELSE progress
    /\ pc' = "read"
    /\ UNCHANGED <<src_rows, total_rows, row_count, cancelled, file_exists, zsav,
                   rows_written, row_started, result>>
    /\ UNCHANGED <<ncases, bytes_read, file_size>>
    /\ UNCHANGED nonConvVars

\* writer.finish()?; Ok(row_count)
ConvFinish ==
    /\ pc = "finish"
    /\ \/ /\ zsav' = "finished"
          /\ result' = "Ok"
          /\ pc' = "done"
       \/ Return("ErrFinish")
    /\ UNCHANGED <<src_rows, total_rows, row_count, cancelled, file_exists,
                   rows_written, row_started>>
    /\ UNCHANGED <<ncases, bytes_read, file_size, progress>>
    /\ UNCHANGED nonConvVars

ConvNext ==
    \/ Cancel
    \/ ConvCountRows
    \/ ConvCheck0
    \/ ConvCreate
    \/ ConvNewZsav
    \/ ConvOpenCsv
    \/ ConvRead
    \/ ConvCancelCheck
    \/ ConvCancelDrop
    \/ ConvCancelRemove
    \/ ConvWrite
    \/ ConvProgress
    \/ ConvFinish

ConvSpec == ConvInit /\ [][ConvNext]_vars

----------------------------------------------------------------------------
(* The conversion with the cancel request observed: the same steps over    *)
(* sources of up to two cancel-check intervals, and cancel_conversion      *)
(* recording how many rows had been written when it stored the flag.       *)

CancelSrcLens == {0, 1, MaxCancelRows}

CancelInit ==
    /\ pc = "count"
    /\ src_rows \in CancelSrcLens
    /\ total_rows = 0
    /\ ncases = -2
    /\ bytes_read = 0
    /\ file_size = SrcBytes(src_rows)
    /\ progress = <<>>
    /\ row_count = 0
    /\ cancelled = FALSE
    /\ file_exists = FALSE
    /\ zsav = "none"
    /\ rows_written = 0
    /\ row_started = 0
    /\ result = ""
    /\ rows_at_cancel = -1
    /\ SavIdle
    /\ InferIdle
    /\ ColDefsIdle
    /\ RowIdle
    /\ LibIdle

\* cancel_conversion (lib.rs): flag.0.store(true)
CancelObserved ==
    /\ pc # "done"
    /\ cancelled = FALSE
    /\ cancelled' = TRUE
    /\ rows_at_cancel' = rows_written
    /\ UNCHANGED <<pc, src_rows, total_rows, row_count, file_exists, zsav,
                   rows_written, row_started, result>>
    /\ UNCHANGED <<ncases, bytes_read, file_size, progress>>
    /\ UNCHANGED <<savVars, inferVars, colDefsVars, rowVars, libVars>>

CancelNext ==
    \/ CancelObserved
    \/ ConvCountRows
    \/ ConvCheck0
    \/ ConvCreate
    \/ ConvNewZsav
    \/ ConvOpenCsv
    \/ ConvRead
    \/ ConvCancelCheck
    \/ ConvCancelDrop
    \/ ConvCancelRemove
    \/ ConvWrite
    \/ ConvProgress
    \/ ConvFinish

CancelSpec == CancelInit /\ [][CancelNext]_vars

----------------------------------------------------------------------------
(* Strings.  A str is its UTF-8 bytes.  The model's text is made of ASCII  *)
(* whitespace, digits, signs, the point, the letter x and multi-byte       *)
(* code points.                                                            *)

IsWs(b) == b \in {9, 10, 11, 12, 13, SP}
IsDigit(b) == b \in 48..57

\* str::trim: the slice between the first and the last non-whitespace byte
RECURSIVE TrimStart(_, _)
TrimStart(s, i) == IF i > Len(s) \/ ~IsWs(s[i]) THEN i ELSE TrimStart(s, i + 1)
RECURSIVE TrimEnd(_, _)
TrimEnd(s, i) == IF i < 1 \/ ~IsWs(s[i]) THEN i ELSE TrimEnd(s, i - 1)
trim(s) == SubSeq(s, TrimStart(s, 1), TrimEnd(s, Len(s)))

\* str::parse::<f64>().is_ok() on the model's text: an optional sign, then
\* digits with at most one point and at least one digit.
parse_is_ok(s) ==
    LET n == Len(s)
        st == IF n > 0 /\ s[1] \in {43, 45} THEN 2 ELSE 1
    IN  /\ n >= st
        /\ \A i \in st..n :
             \/ IsDigit(s[i])
             \/ s[i] = 46 /\ \A j \in st..(i - 1) : s[j] # 46
        /\ \E i \in st..n : IsDigit(s[i])

----------------------------------------------------------------------------
(* schema.rs: ColInfo and infer_schema.                                    *)

\* ColInfo::new
ColInfo_new == [is_numeric |-> TRUE, max_byte_len |-> 0]

\* Mutant of observe: is_numeric follows the last field observed.
observe_last_field(self, value) ==
    LET trimmed == trim(value)
        byte_len == Len(trimmed)
    IN  IF trimmed = <<>> THEN self
        ELSE [is_numeric |-> parse_is_ok(trimmed),
              max_byte_len |-> IF byte_len > self.max_byte_len
                               THEN byte_len ELSE self.max_byte_len]

\* ColInfo::observe(&mut self, value): the ColInfo afterwards
observe(self, value) ==
    LET trimmed == trim(value)
        byte_len == Len(trimmed)
    IN  IF trimmed = <<>> THEN self
        ELSE [is_numeric |-> IF self.is_numeric /\ ~parse_is_ok(trimmed)
                             THEN FALSE ELSE self.is_numeric,
              max_byte_len |-> IF byte_len > self.max_byte_len
                               THEN byte_len ELSE self.max_byte_len]

\* usize::max, usize::min
Max(a, b) == IF a > b THEN a ELSE b

\* schema::ColType and ColInfo::col_type
SchemaNumeric == [kind |-> "Numeric"]
SchemaString(w) == [kind |-> "String", w |-> w]
\* Mutant of ColInfo_col_type: the width is not capped.
ColInfo_col_type_uncapped(self) ==
    IF self.is_numeric THEN SchemaNumeric
    ELSE SchemaString(Max(self.max_byte_len, 1))

ColInfo_col_type(self) ==
    IF self.is_numeric THEN SchemaNumeric
    ELSE SchemaString(Min(Max(self.max_byte_len, 1), MAX_STRING_WIDTH))

\* for (i, field) in record.iter().enumerate() { if i < col_infos.len() {
\*     col_infos[i].observe(field) } }
observe_record(infos, rec) ==
    [i \in 1..Len(infos) |->
        IF i <= Len(rec) THEN observe(infos[i], rec[i]) ELSE infos[i]]

\* Mutant of truncated_cols_of: a column of exactly the widest width counts too.
RECURSIVE truncated_cols_of_at_cap(_, _)
truncated_cols_of_at_cap(hs, infos) ==
    IF hs = <<>> \/ infos = <<>> THEN <<>>
    ELSE (IF ~Head(infos).is_numeric /\ Head(infos).max_byte_len >= MAX_STRING_WIDTH
          THEN <<Head(hs)>> ELSE <<>>)
         \o truncated_cols_of_at_cap(Tail(hs), Tail(infos))

\* headers.iter().zip(&col_infos).filter(..).map(|(h, _)| h.clone()).collect()
RECURSIVE truncated_cols_of(_, _)
truncated_cols_of(hs, infos) ==
    IF hs = <<>> \/ infos = <<>> THEN <<>>
    ELSE (IF ~Head(infos).is_numeric /\ Head(infos).max_byte_len > MAX_STRING_WIDTH
          THEN <<Head(hs)>> ELSE <<>>)
         \o truncated_cols_of(Tail(hs), Tail(infos))

\* CsvSchema
CsvSchema(hs, tys, size, truncated) ==
    [headers |-> hs, col_types |-> tys, file_size |-> size,
     truncated_cols |-> truncated]

----------------------------------------------------------------------------
(* The inputs of the infer_schema specification.  A record lists its       *)
(* fields by their index in Fields.                                        *)

MaxInferCols == 2   \* columns of an inferred source
MaxInferRows == 2   \* records of an inferred source
SAMPLE_ROWS == 2147483647   \* usize::MAX, as the largest integer at hand

Fields == <<
    <<>>,                                   \* ""
    <<SP, 9>>,                              \* " \t"
    <<49>>,                                 \* "1"
    <<SP, 45, 50, 46, 53, SP>>,             \* " -2.5 "
    <<LetterH>>,                            \* "h"
    <<195, 169>>,                           \* "é", one code point of 2 bytes
    Rep(LetterH, MAX_STRING_WIDTH),         \* the widest string that fits
    Rep(LetterH, MAX_STRING_WIDTH + 1),     \* one byte too wide
    Rep(48, MAX_STRING_WIDTH) \o <<49>> >>  \* "00...01", a number too wide
FieldIds == 1..Len(Fields)

HeaderName(i) == <<96 + i>>                                 \* "a", "b", ...
HeaderLists == {[i \in 1..n |-> HeaderName(i)] : n \in 0..MaxInferCols}

\* The records of n fields: the first field is any of Fields, the i-th is
\* the one 4(i-1) places further on (cyclically).
InferRecords(n) ==
    {[i \in 1..n |-> ((f - 1 + 4 * (i - 1)) % Len(Fields)) + 1] : f \in FieldIds}
InferSources ==
    UNION {UNION {{[headers |-> hs, records |-> rs] :
                     rs \in [1..k -> InferRecords(Len(hs))]} :
                  k \in 0..MaxInferRows} :
           hs \in HeaderLists}
SampleRowsArgs == {0, 1, SAMPLE_ROWS}

\* The fields of the k-th record of the source, and the source's size.
RecordOf(src, k) == [i \in 1..Len(src.records[k]) |-> Fields[src.records[k][i]]]
LineBytes(fields) == SumSeq([i \in 1..Len(fields) |-> Len(fields[i]) + 1])
SourceBytes(src) ==
    LineBytes(src.headers)
    + SumSeq([k \in 1..Len(src.records) |-> LineBytes(RecordOf(src, k))])

----------------------------------------------------------------------------
(* schema.rs: infer_schema, one action per step of the function.  The      *)
(* cancel flag is set from another thread at any moment; opening the file  *)
(* and reading from it fail nondeterministically.                          *)

InferInit ==
    /\ inf_pc = "open"
    /\ csv_src \in InferSources
    /\ sample_rows \in SampleRowsArgs
    /\ inf_cancelled = FALSE
    /\ headers = <<>>
    /\ col_infos = <<>>
    /\ sampled_rows = 0
    /\ yielded = 0
    /\ item_ok = TRUE
    /\ cancel_loads = 0
    /\ observed = <<>>
    /\ schema = NoSchema
    /\ inf_result = ""
    /\ SavIdle
    /\ ConvIdle
    /\ ColDefsIdle
    /\ RowIdle
    /\ LibIdle

\* return Err(..)
InferErr(e) ==
    /\ inf_result' = e
    /\ inf_pc' = "done"

\* cancel_conversion (lib.rs): flag.0.store(true)
InferCancel ==
    /\ inf_pc # "done"
    /\ inf_cancelled = FALSE
    /\ inf_cancelled' = TRUE
    /\ UNCHANGED <<inf_pc, csv_src, sample_rows, headers, col_infos, sampled_rows,
                   yielded, item_ok, cancel_loads, observed, schema, inf_result>>
    /\ UNCHANGED nonInferVars

\* let file_size = fs::metadata(path).map(|m| m.len()).unwrap_or(0);
\* let file = File::open(path)?; the buffered reader, csv::Reader
InferOpen ==
    /\ inf_pc = "open"
    /\ \E size \in {SourceBytes(csv_src), 0} :
         schema' = [schema EXCEPT !.file_size = size]
    /\ \/ /\ inf_pc' = "headers"
          /\ UNCHANGED inf_result
       \/ InferErr("ErrOpen")
    /\ UNCHANGED <<csv_src, sample_rows, inf_cancelled, headers, col_infos,
                   sampled_rows, yielded, item_ok, cancel_loads, observed>>
    /\ UNCHANGED nonInferVars

\* let headers = reader.headers()?...; if headers.is_empty() { return Err }
\* let mut col_infos = vec![ColInfo::new(); headers.len()]; sampled_rows = 0
InferHeaders ==
    /\ inf_pc = "headers"
    /\ \/ /\ headers' = csv_src.headers
          /\ IF csv_src.headers = <<>>
             THEN /\ InferErr("NoColumns")
                  /\ UNCHANGED col_infos
             ELSE /\ col_infos' = [i \in 1..Len(csv_src.headers) |-> ColInfo_new]
                  /\ inf_pc' = "next"
                  /\ UNCHANGED inf_result
       \/ /\ InferErr("ErrHeaders")
          /\ UNCHANGED <<headers, col_infos>>
    /\ UNCHANGED <<csv_src, sample_rows, inf_cancelled, sampled_rows, yielded,
                   item_ok, cancel_loads, observed, schema>>
    /\ UNCHANGED nonInferVars

\* for result in reader.records() {     (the iterator's next())
InferNextRecord ==
    /\ inf_pc = "next"
    /\ IF yielded = Len(csv_src.records)
       THEN /\ inf_pc' = "collect"
            /\ UNCHANGED <<yielded, item_ok>>
       ELSE /\ yielded' = yielded + 1
            /\ item_ok' \in BOOLEAN
            /\ inf_pc' = "cancel_check"
    /\ UNCHANGED <<csv_src, sample_rows, inf_cancelled, headers, col_infos,
                   sampled_rows, cancel_loads, observed, schema, inf_result>>
    /\ UNCHANGED nonInferVars

\* Mutant of InferCancelCheck: the flag is loaded and ignored.
InferCancelCheck_ignored ==
    /\ inf_pc = "cancel_check"
    /\ cancel_loads' = cancel_loads + 1
    /\ inf_pc' = "observe"
    /\ UNCHANGED <<csv_src, sample_rows, inf_cancelled, headers, col_infos,
                   sampled_rows, yielded, item_ok, observed, schema, inf_result>>
    /\ UNCHANGED nonInferVars

\*     if cancelled.load(Relaxed) { return Err("Cancelled") }
InferCancelCheck ==
    /\ inf_pc = "cancel_check"
    /\ cancel_loads' = cancel_loads + 1
    /\ IF inf_cancelled
       THEN InferErr("Cancelled")
       ELSE inf_pc' = "observe" /\ UNCHANGED inf_result
    /\ UNCHANGED <<csv_src, sample_rows, inf_cancelled, headers, col_infos,
                   sampled_rows, yielded, item_ok, observed, schema>>
    /\ UNCHANGED nonInferVars

\* Mutant of InferObserve: the loop is left after the first record.
InferObserve_first_record_only ==
    /\ inf_pc = "observe"
    /\ IF item_ok
       THEN /\ sampled_rows' = sampled_rows + 1
            /\ col_infos' = observe_record(col_infos, RecordOf(csv_src, yielded))
            /\ observed' = Append(observed, yielded)
            /\ inf_pc' = "collect"
            /\ UNCHANGED inf_result
       ELSE /\ InferErr("ErrRead")
            /\ UNCHANGED <<sampled_rows, col_infos, observed>>
    /\ UNCHANGED <<csv_src, sample_rows, inf_cancelled, headers, yielded, item_ok,
                   cancel_loads, schema>>
    /\ UNCHANGED nonInferVars

\*     let record = result?; sampled_rows += 1;
\*     for (i, field) in record.iter().enumerate() { .. observe(field) .. }
\*     if sampled_rows >= sample_rows { break; } }
InferObserve ==
    /\ inf_pc = "observe"
    /\ IF item_ok
       THEN /\ sampled_rows' = sampled_rows + 1
            /\ col_infos' = observe_record(col_infos, RecordOf(csv_src, yielded))
            /\ observed' = Append(observed, yielded)
            /\ inf_pc' = IF sampled_rows + 1 >= sample_rows THEN "collect"
                         ELSE "next"
            /\ UNCHANGED inf_result
       ELSE /\ InferErr("ErrRead")
            /\ UNCHANGED <<sampled_rows, col_infos, observed>>
    /\ UNCHANGED <<csv_src, sample_rows, inf_cancelled, headers, yielded, item_ok,
                   cancel_loads, schema>>
    /\ UNCHANGED nonInferVars

\* let truncated_cols = ..; let col_types = ..; Ok(CsvSchema { .. })
InferCollect ==
    /\ inf_pc = "collect"
    /\ schema' = CsvSchema(headers,
                           [i \in 1..Len(col_infos) |-> ColInfo_col_type(col_infos[i])],
                           schema.file_size,
                           truncated_cols_of(headers, col_infos))
    /\ inf_result' = "Ok"
    /\ inf_pc' = "done"
    /\ UNCHANGED <<csv_src, sample_rows, inf_cancelled, headers, col_infos,
                   sampled_rows, yielded, item_ok, cancel_loads, observed>>
    /\ UNCHANGED nonInferVars

InferNext ==
    \/ InferCancel
    \/ InferOpen
    \/ InferHeaders
    \/ InferNextRecord
    \/ InferCancelCheck
    \/ InferObserve
    \/ InferCollect

InferSpec == InferInit /\ [][InferNext]_vars

----------------------------------------------------------------------------
(* converter.rs: make_col_defs.                                            *)

\* format!("{}", n): the decimal digits of n
RECURSIVE format_usize(_)
format_usize(n) ==
    IF n < 10 THEN <<48 + n>> ELSE format_usize(n \div 10) \o <<48 + (n % 10)>>

\* Mutant of make_col_defs: the names are numbered from 0.
make_col_defs_from_zero(sch) ==
    [i \in 1..Min(Len(sch.headers), Len(sch.col_types)) |->
        ColDef(<<86>> \o format_usize(i - 1),
               sch.headers[i],
               IF sch.col_types[i].kind = "Numeric" THEN Numeric
               ELSE String(sch.col_types[i].w))]

\* make_col_defs(schema); the enumerate index i of the code is i - 1 here
make_col_defs(sch) ==
    [i \in 1..Min(Len(sch.headers), Len(sch.col_types)) |->
        ColDef(<<86>> \o format_usize((i - 1) + 1),
               sch.headers[i],
               IF sch.col_types[i].kind = "Numeric" THEN Numeric
               ELSE String(sch.col_types[i].w))]

(* The inputs of the make_col_defs specification: the schemas infer_schema *)
(* can return, of 1 to MaxSchemaCols columns.                              *)

MaxSchemaCols == 11
HeaderStyles == {"letters", "names", "empty", "long"}
StyledHeader(style, i) ==
    CASE style = "letters" -> <<96 + i>>                    \* "a", "b", ...
      [] style = "names"   -> <<86, 49>>                    \* "V1" everywhere
      [] style = "empty"   -> <<>>
      [] style = "long"    -> Rep(195, 1) \o <<169>> \o Rep(LetterH, 70)
TypeStyles == {"numeric", "string", "mixed"}
StyledType(style, i) ==
    CASE style = "numeric" -> SchemaNumeric
      [] style = "string"  -> SchemaString(8)
      [] style = "mixed"   -> IF i % 2 = 1 THEN SchemaString(MAX_STRING_WIDTH)
                              ELSE SchemaNumeric
Schemas ==
    {CsvSchema([i \in 1..n |-> StyledHeader(hs, i)],
               [i \in 1..n |-> StyledType(ts, i)], 0, <<>>) :
        n \in 1..MaxSchemaCols, hs \in HeaderStyles, ts \in TypeStyles}

ColDefsInit ==
    /\ cd_pc = "call"
    /\ cd_schema \in Schemas
    /\ col_defs = <<>>
    /\ SavIdle
    /\ ConvIdle
    /\ InferIdle
    /\ RowIdle
    /\ LibIdle

\* let col_defs = make_col_defs(csv_schema);
MakeColDefs ==
    /\ cd_pc = "call"
    /\ col_defs' = make_col_defs(cd_schema)
    /\ cd_pc' = "done"
    /\ UNCHANGED cd_schema
    /\ UNCHANGED nonColDefsVars

ColDefsNext == MakeColDefs

ColDefsSpec == ColDefsInit /\ [][ColDefsNext]_vars

----------------------------------------------------------------------------
(* converter.rs: truncate_utf8 and the mapping of a record's fields to the *)
(* row's values.                                                           *)

\* str::is_char_boundary(index): the start, the end, or a byte that is not a
\* continuation byte (0x80..0xBF)
is_char_boundary(s, index) ==
    \/ index = 0
    \/ index = Len(s)
    \/ index < Len(s) /\ s[index + 1] \notin 128..191

\* while end > 0 && !s.is_char_boundary(end) { end -= 1; }
RECURSIVE BackToBoundary(_, _)
BackToBoundary(s, end) ==
    IF end > 0 /\ ~is_char_boundary(s, end) THEN BackToBoundary(s, end - 1)
    ELSE end

\* Mutant of truncate_utf8: the cut is made at max_bytes, wherever it falls.
truncate_utf8_at_byte(s, max_bytes) ==
    IF Len(s) <= max_bytes THEN s ELSE SubSeq(s, 1, max_bytes)

truncate_utf8(s, max_bytes) ==
    IF Len(s) <= max_bytes THEN s
    ELSE SubSeq(s, 1, BackToBoundary(s, max_bytes))

\* str::parse::<f64>() on the text parse_is_ok accepts: the digits read as
\* one integer, scaled by the number of digits after the point.  The value
\* is given where the quotient is exact in binary.
parse_f64(s) ==
    LET st == IF s[1] \in {43, 45} THEN 2 ELSE 1
        sign == IF s[1] = 45 THEN -1 ELSE 1
        digits == SelectSeq(SubSeq(s, st, Len(s)), IsDigit)
        point == {k \in st..Len(s) : s[k] = 46}
        frac == IF point = {} THEN 0 ELSE Len(s) - (CHOOSE k \in point : TRUE)
        RECURSIVE Val(_)
        Val(ds) == IF ds = <<>> THEN 0
                   ELSE 10 * Val(SubSeq(ds, 1, Len(ds) - 1)) + (ds[Len(ds)] - 48)
        nonzero == {k \in 1..Len(digits) : digits[k] # 48}
        first == CHOOSE k \in nonzero : \A j \in nonzero : k <= j
        n == IF nonzero = {} THEN 0
             ELSE Val(SubSeq(digits, first, Len(digits)))
    IN  CASE n % (5 ^ frac) = 0 -> Norm(sign * (n \div (5 ^ frac)), -frac)

\* readstat_writer::Value::Str
Str(bytes) == [tag |-> "Str", bytes |-> bytes]

\* record.get(i).unwrap_or("").trim(), i counted from 1
field_of(rec, i) == trim(IF i <= Len(rec) THEN rec[i] ELSE <<>>)

\* for i in 0..col_count { .. string_buf[i].push_str(..) .. }
fill_string_buf(tys, rec) ==
    [i \in 1..Len(tys) |->
        IF tys[i].kind = "String" THEN truncate_utf8(field_of(rec, i), tys[i].w)
        ELSE field_of(rec, i)]

\* Mutant of map_values: a numeric field that does not parse becomes 0.
map_values_zero_default(tys, buf) ==
    [i \in 1..Len(tys) |->
        IF tys[i].kind = "Numeric"
        THEN IF buf[i] = <<>> THEN Number(None)
             ELSE IF parse_is_ok(buf[i]) THEN Number(Some(parse_f64(buf[i])))
                  ELSE Number(Some(F64(0)))
        ELSE Str(buf[i])]

\* let row_values = col_types.iter().enumerate().map(..).collect();
map_values(tys, buf) ==
    [i \in 1..Len(tys) |->
        IF tys[i].kind = "Numeric"
        THEN IF buf[i] = <<>> THEN Number(None)
             ELSE IF parse_is_ok(buf[i]) THEN Number(Some(parse_f64(buf[i])))
                  ELSE Number(None)
        ELSE Str(buf[i])]

(* The inputs of the field-mapping specification: column types of small   *)
(* widths and records of one field per column, or one field short.         *)

MaxRowCols == 2     \* columns of a mapped record
MaxTruncWidth == 4  \* widest string column of a mapped record

RowFields == {
    <<>>,                                   \* ""
    <<SP, 9>>,                              \* " \t"
    <<49>>,                                 \* "1"
    <<SP, 45, 50, 46, 53, SP>>,             \* " -2.5 "
    <<49, LetterH>>,                        \* "1h"
    <<LetterH, 195, 169>>,                  \* "hé": 1 + 2 bytes
    <<195, 169, 226, 130, 172>>,            \* "é€": 2 + 3 bytes
    <<240, 159, 152, 128, LetterH>>,        \* an emoji and "h": 4 + 1 bytes
    <<SP, LetterH, LetterH, SP>> }          \* " hh "
RowTypes == {SchemaNumeric} \cup {SchemaString(w) : w \in 1..MaxTruncWidth}
RowTypeLists == UNION {[1..n -> RowTypes] : n \in 1..MaxRowCols}
RowRecords(n) == [1..n -> RowFields] \cup [1..(n - 1) -> RowFields]

RowInit ==
    /\ row_pc = "fill"
    /\ col_types \in RowTypeLists
    /\ record \in RowRecords(Len(col_types))
    /\ string_buf = [i \in 1..Len(col_types) |-> <<>>]
    /\ row_values = <<>>
    /\ SavIdle
    /\ ConvIdle
    /\ InferIdle
    /\ ColDefsIdle
    /\ LibIdle

\* for i in 0..col_count { let field = ..; string_buf[i].clear(); .. }
FillStringBuf ==
    /\ row_pc = "fill"
    /\ string_buf' = fill_string_buf(col_types, record)
    /\ row_pc' = "values"
    /\ UNCHANGED <<col_types, record, row_values>>
    /\ UNCHANGED nonRowVars

\* let row_values: Vec<Value<'_>> = ..collect();
MapValues ==
    /\ row_pc = "values"
    /\ row_values' = map_values(col_types, string_buf)
    /\ row_pc' = "done"
    /\ UNCHANGED <<col_types, record, string_buf>>
    /\ UNCHANGED nonRowVars

RowNext == FillStringBuf \/ MapValues

RowSpec == RowInit /\ [][RowNext]_vars

----------------------------------------------------------------------------
(* lib.rs: the two commands.  run() manages one CancelFlag for the whole   *)
(* application; every invocation of convert_csv_to_sav stores false into   *)
(* it and hands a clone of the same Arc to its blocking task, which reads  *)
(* it once per record of infer_schema, once after it, and in the driver.   *)
(* The commands are async, so invocations interleave.                      *)

Running(t) == lib_pc[t] \in {"infer", "check", "convert", "rows"}

\* run(): .manage(CancelFlag(Arc::new(AtomicBool::new(false))))
LibInit ==
    /\ LibIdle
    /\ SavIdle
    /\ ConvIdle
    /\ InferIdle
    /\ ColDefsIdle
    /\ RowIdle

\* the blocking task returns r
LibReturn(t, r) ==
    /\ lib_result' = [lib_result EXCEPT ![t] = r]
    /\ lib_pc' = [lib_pc EXCEPT ![t] = "done"]

\* cancel_conversion: flag.0.store(true).  The request is meant for one of
\* the running conversions, if there is one.
cancel_conversion ==
    /\ cancel_flag' = TRUE
    /\ \/ \E t \in Invocations :
             /\ Running(t)
             /\ aimed' = [aimed EXCEPT ![t] = TRUE]
       \/ /\ \A t \in Invocations : ~Running(t)
          /\ UNCHANGED aimed
    /\ UNCHANGED <<lib_pc, records_left, lib_result>>
    /\ UNCHANGED nonLibVars

\* convert_csv_to_sav, up to spawn_blocking: cancel_flag.0.store(false)
convert_csv_to_sav(t) ==
    /\ lib_pc[t] = "idle"
    /\ cancel_flag' = FALSE
    /\ \E n \in 0..MaxLibRecords :
         records_left' = [records_left EXCEPT ![t] = n]
    /\ lib_pc' = [lib_pc EXCEPT ![t] = "infer"]
    /\ UNCHANGED <<lib_result, aimed>>
    /\ UNCHANGED nonLibVars

\* schema::infer_schema(input_p, SAMPLE_ROWS, &cancelled)?: one record, the
\* flag loaded first; an unreadable record is an error
LibInferRecord(t) ==
    /\ lib_pc[t] = "infer"
    /\ records_left[t] > 0
    /\ IF cancel_flag
       THEN LibReturn(t, "Cancelled") /\ UNCHANGED records_left
       ELSE \/ /\ records_left' = [records_left EXCEPT ![t] = @ - 1]
               /\ UNCHANGED <<lib_pc, lib_result>>
            \/ LibReturn(t, "Err") /\ UNCHANGED records_left
    /\ UNCHANGED <<cancel_flag, aimed>>
    /\ UNCHANGED nonLibVars

\* infer_schema returns Ok at the end of the source
LibInferDone(t) ==
    /\ lib_pc[t] = "infer"
    /\ records_left[t] = 0
    /\ lib_pc' = [lib_pc EXCEPT ![t] = "check"]
    /\ UNCHANGED <<cancel_flag, records_left, lib_result, aimed>>
    /\ UNCHANGED nonLibVars

\* if cancelled.load(Relaxed) { return Err("Cancelled") }
LibCheck(t) ==
    /\ lib_pc[t] = "check"
    /\ IF cancel_flag
       THEN LibReturn(t, "Cancelled")
       ELSE lib_pc' = [lib_pc EXCEPT ![t] = "convert"] /\ UNCHANGED lib_result
    /\ UNCHANGED <<cancel_flag, records_left, aimed>>
    /\ UNCHANGED nonLibVars

\* converter::convert_csv_to_sav(..)?, up to its writing pass: the counting
\* pass and the check after it load the flag
LibConvert(t) ==
    /\ lib_pc[t] = "convert"
    /\ IF cancel_flag
       THEN LibReturn(t, "Cancelled")
       ELSE \/ lib_pc' = [lib_pc EXCEPT ![t] = "rows"] /\ UNCHANGED lib_result
            \/ LibReturn(t, "Err")
    /\ UNCHANGED <<cancel_flag, records_left, aimed>>
    /\ UNCHANGED nonLibVars

\* the writing pass: it ends at a cancel check that sees the flag, at the
\* end of the source, or at an I/O error
LibRows(t) ==
    /\ lib_pc[t] = "rows"
    /\ \/ cancel_flag /\ LibReturn(t, "Cancelled")
       \/ LibReturn(t, "Ok")
       \/ LibReturn(t, "Err")
    /\ UNCHANGED <<cancel_flag, records_left, aimed>>
    /\ UNCHANGED nonLibVars

LibNext ==
    \/ cancel_conversion
    \/ \E t \in Invocations : convert_csv_to_sav(t)
    \/ \E t \in Invocations : LibInferRecord(t)
    \/ \E t \in Invocations : LibInferDone(t)
    \/ \E t \in Invocations : LibCheck(t)
    \/ \E t \in Invocations : LibConvert(t)
    \/ \E t \in Invocations : LibRows(t)

LibSpec == LibInit /\ [][LibNext]_vars

----------------------------------------------------------------------------
(* Reading the output back, as the claims do.                              *)

\* How a reader of the format counts segments: the least k with 8k >= w.
IsCeil8(k, w) == 8 * k >= w /\ 8 * (k - 1) < w
SegmentsOf(col_type) ==
    IF col_type.kind = "Numeric" THEN 1
    ELSE CHOOSE k \in 0..col_type.w : IsCeil8(k, col_type.w)
RowWidth(cs) == SumSeq([i \in 1..Len(cs) |-> SegmentsOf(cs[i].col_type)])

\* The data section: everything after the dictionary terminator.
Data == SubSeq(writer, dict_len + 1, Len(writer))

\* The bytes of a sequence of segments laid out in groups of 8 opcodes, each
\* group followed by its raw payloads; a short last group is zero-padded.
RECURSIVE EncodeGroups(_)
EncodeGroups(segs) ==
    IF segs = <<>> THEN <<>>
    ELSE LET n == Min(8, Len(segs))
         IN     [i \in 1..n |-> segs[i].op] \o Rep(0, 8 - n)
             \o Flatten([i \in 1..n |-> segs[i].raw])
             \o EncodeGroups(SubSeq(segs, n + 1, Len(segs)))

\* A reader of simple compression: the first n segments of data, and the
\* number of bytes it consumed.  It reads an opcode block, then one payload
\* for every OP_RAW among the opcodes it still needs; at a truncated group
\* it stops with the segments read so far.
RECURSIVE ReadSegs(_, _, _)
ReadSegs(data, pos, n) ==
    IF n = 0 \/ Len(data) < pos + 8 THEN [segs |-> <<>>, pos |-> pos]
    ELSE LET k == Min(8, n)
             ops == SubSeq(data, pos + 1, pos + k)
             nraw(i) == Cardinality({j \in 1..(i - 1) : ops[j] = OP_RAW})
             seg(i) == [op |-> ops[i],
                        raw |-> IF ops[i] = OP_RAW
                                THEN SubSeq(data, pos + 8 + 8 * nraw(i) + 1,
                                            pos + 8 + 8 * nraw(i) + 8)
                                ELSE <<>>]
             rest == ReadSegs(data, pos + 8 + 8 * nraw(k + 1), n - k)
         IN  IF Len(data) < pos + 8 + 8 * nraw(k + 1)
             THEN [segs |-> <<>>, pos |-> pos]
             ELSE [segs |-> [i \in 1..k |-> seg(i)] \o rest.segs,
                   pos |-> rest.pos]

\* The segments the last write_row pushed, and those of its column i when the
\* row had one value per column.
LastSegs == SubSeq(pushed, last_pushed + 1, Len(pushed))
SegStart(i) == RowWidth(SubSeq(cols, 1, i - 1))
ColSegs(i) == SubSeq(LastSegs, SegStart(i) + 1, SegStart(i) + SegmentsOf(cols[i].col_type))
RowWellTyped ==
    /\ sav_rows > 0
    /\ Len(last_values) = Len(cols)
    /\ \A i \in 1..Len(cols) :
         (cols[i].col_type.kind = "Numeric") = (last_values[i].tag = "Number")

\* The value a reader reconstructs from one numeric segment.
DecodeNumeric(seg) ==
    IF seg.op = OP_SYSMIS THEN None
    ELSE IF seg.op = OP_RAW THEN Some(F64FromLeBytes(seg.raw))
    ELSE Some(F64(seg.op - BIAS))

\* The 8 bytes a reader reconstructs from one string segment.
DecodeChunk(seg) == IF seg.op = OP_SPACES THEN Rep(SP, 8) ELSE seg.raw

----------------------------------------------------------------------------
(* Claims.                                                                 *)

\* C1: the data section is a concatenation of groups, each of exactly 8
\* opcode bytes followed by the 8-byte payloads of the group's OP_RAW
\* segments in push order; while the writer is open the sink holds the
\* complete groups, after finish it holds them all.
C1_DataIsGroups ==
    Data = EncodeGroups(IF sav_pc = "finished" THEN pushed
                        ELSE SubSeq(pushed, 1, 8 * (Len(pushed) \div 8)))

\* C1 witness: a finished file of more than one group whose first group
\* carries a raw payload.
C1_Witness ==
    /\ sav_pc = "finished"
    /\ Len(pushed) > 8
    /\ \E i \in 1..8 : pushed[i].op = OP_RAW

\* C2 (as claimed): a numeric value becomes one segment: None gives opcode
\* 255; n with n + 100 integral in [1, 251] gives that opcode byte; any other
\* n gives OP_RAW with n's 8 little-endian bytes; and decoding the segment
\* yields exactly the value written.
C2_NumericRoundTrip ==
    RowWellTyped =>
      \A i \in 1..Len(cols) :
        cols[i].col_type.kind = "Numeric" =>
          LET opt == last_values[i].opt
              segs == ColSegs(i)
              s == F64Add(opt.v, F64(BIAS))
          IN  /\ Len(segs) = 1
              /\ ~opt.some => segs[1] = [op |-> OP_SYSMIS, raw |-> <<>>]
              /\ opt.some =>
                   IF F64FractIsZero(s) /\ F64Ge(s, 1) /\ F64Le(s, 251)
                   THEN segs[1].op = F64AsU8(s) /\ segs[1].raw = <<>>
                        /\ segs[1].op \notin {0, 252, 253, 254, 255}
                   ELSE segs[1] = [op |-> OP_RAW, raw |-> F64ToLeBytes(opt.v)]
              /\ DecodeNumeric(segs[1]) = opt

\* C3: a String(w) column pushes exactly ceil(w/8) segments which decode to
\* the first min(b, w) bytes of the field, space-padded to ceil(w/8)*8 bytes;
\* an all-space chunk is OP_SPACES without payload, any other chunk is OP_RAW
\* with the chunk as payload; an empty field gives only OP_SPACES.
C3_StringSegments ==
    RowWellTyped =>
      /\ Len(LastSegs) = RowWidth(cols)
      /\ \A i \in 1..Len(cols) :
           cols[i].col_type.kind = "String" =>
             LET w == cols[i].col_type.w
                 field == last_values[i].bytes
                 segs == ColSegs(i)
                 keep == Min(Len(field), w)
             IN  /\ IsCeil8(Len(segs), w)
                 /\ Flatten([k \in 1..Len(segs) |-> DecodeChunk(segs[k])])
                      = SubSeq(field, 1, keep) \o Rep(SP, 8 * Len(segs) - keep)
                 /\ \A k \in 1..Len(segs) :
                      \/ segs[k] = [op |-> OP_SPACES, raw |-> <<>>]
                      \/ /\ segs[k].op = OP_RAW
                         /\ Len(segs[k].raw) = 8
                         /\ segs[k].raw # Rep(SP, 8)
                 /\ field = <<>> => \A k \in 1..Len(segs) : segs[k].op = OP_SPACES

\* C3 witness: a field longer than 8 bytes whose first chunk is all spaces
\* and whose second is not, written to a column wide enough to hold it.
C3_Witness ==
    /\ RowWellTyped
    /\ \E i \in 1..Len(cols) :
         /\ cols[i].col_type.kind = "String"
         /\ cols[i].col_type.w >= 9
         /\ last_values[i].bytes = Rep(SP, 8) \o <<LetterH>>
         /\ ColSegs(i)[1].op = OP_SPACES
         /\ ColSegs(i)[2].op = OP_RAW

\* C4: the nominal_case_size header field (i32 at offset 68) is the sum over
\* the columns of their segment counts, 1 for Numeric and ceil(w/8) for
\* String(w); col_segments is ceil(w/8) for every w in [1, 32767].
C4_NominalCaseSize ==
    /\ read_i32(writer, 68) = RowWidth(cols)
    /\ col_segments(Numeric) = 1
    /\ cols = <<>> =>
         \A w \in 1..MAX_STRING_WIDTH : IsCeil8(col_segments(String(w)), w)

\* C4 witness: a String(9) column and a Numeric one give case size 3, still
\* there after the rows are written.
C4_Witness ==
    /\ sav_pc = "finished"
    /\ sav_rows > 0
    /\ Len(cols) = 2
    /\ cols[1].col_type = String(9)
    /\ cols[2].col_type = Numeric
    /\ read_i32(writer, 68) = 3

\* C5: the file starts with a 176-byte header whose fixed fields are the
\* same for every column list and stay as written: "$FL2", layout 2 at 64,
\* compression 1 at 72, weight index 0 at 76, ncases -1 at 80, bias 100.0 at
\* 84; the dictionary (the first variable record, or the terminator when
\* there is no column) starts at offset 176.
C5_HeaderFields ==
    /\ Len(writer) >= 176
    /\ SubSeq(writer, 1, 4) = <<36, 70, 76, 50>>
    /\ read_i32(writer, 64) = 2
    /\ read_i32(writer, 72) = 1
    /\ read_i32(writer, 76) = 0
    /\ read_i32(writer, 80) = -1
    /\ F64FromLeBytes(SubSeq(writer, 85, 92)) = F64(100)
    /\ SubSeq(writer, 85, 92) = <<0, 0, 0, 0, 0, 0, 89, 64>>
    /\ IF cols = <<>>
       THEN read_i32(writer, 176) = 999
       ELSE /\ read_i32(writer, 176) = 2
            /\ read_i32(writer, 180) =
                 (IF cols[1].col_type.kind = "Numeric" THEN 0 ELSE cols[1].col_type.w)

\* C5 witness: a file with columns and rows, finished.
C5_Witness ==
    /\ sav_pc = "finished"
    /\ sav_rows > 0
    /\ cols # <<>>
    /\ Len(Data) > 0
    /\ read_i32(writer, 176) = 2

\* C6: finish drains the encoder.  The finish step appends, when k in 1..7
\* segments are pending, their k opcodes, 8 - k zero bytes and their raw
\* payloads, and nothing when none is pending; afterwards a reader gets back
\* every pushed segment from the data section and consumes all of it, and the
\* opcode bytes number the least multiple of 8 not below the segment count.
C6_AtFinish ==
    sav_pc = "finished" =>
      LET n == Len(pushed)
          r == ReadSegs(Data, 0, n)
          nraw == Cardinality({i \in 1..n : pushed[i].op = OP_RAW})
          nops == Len(Data) - 8 * nraw
      IN  /\ r.segs = pushed
          /\ r.pos = Len(Data)
          /\ nops % 8 = 0 /\ nops >= n /\ nops - 8 < n
          /\ n = 0 => Data = <<>>
          /\ opcode_count = 0 /\ raw_buf = <<>>
C6_FinishStep ==
    (sav_pc = "open" /\ sav_pc' = "finished") =>
      LET k == Len(pushed) % 8
          pending == SubSeq(pushed, Len(pushed) - k + 1, Len(pushed))
      IN  writer' = writer \o
            (IF k = 0 THEN <<>>
             ELSE [i \in 1..k |-> pending[i].op] \o Rep(0, 8 - k)
                  \o Flatten([i \in 1..k |-> pending[i].raw]))
C6_FinishDrains == [](C6_AtFinish) /\ [][C6_FinishStep]_vars

\* C6 witness: finish found a short last group with a raw payload pending,
\* after a full group had been flushed.
C6_Witness ==
    /\ sav_pc = "finished"
    /\ Len(pushed) > 8
    /\ Len(pushed) % 8 # 0
    /\ pushed[Len(pushed)].op = OP_RAW

\* C7 (as claimed): write_row with a number of values other than the number
\* of columns returns an error and emits nothing.
C7_ArityError ==
    (sav_pc = "open" /\ sav_rows > 0 /\ Len(last_values) # Len(cols)) =>
      (sav_result = "Err" /\ Len(pushed) = last_pushed)

\* C8 (as claimed): write_row with a value whose variant does not match its
\* column's type returns an error and writes no data for the row.
C8_VariantError ==
    (/\ sav_pc = "open" /\ sav_rows > 0 /\ Len(last_values) = Len(cols)
     /\ \E i \in 1..Len(cols) :
          (cols[i].col_type.kind = "Numeric") # (last_values[i].tag = "Number")) =>
      (sav_result = "Err" /\ Len(pushed) = last_pushed)

\* C9 (as claimed): when convert_csv_to_zsav returns a CSV read error, a
\* write_row failure or a finish failure, all of which come after the output
\* file was created, the file has been removed.
C9_PartialOutputRemoved ==
    (pc = "done" /\ result \in {"ErrRead", "ErrWrite", "ErrFinish"}) => ~file_exists

\* C10: in the writing pass cancellation is acted on only at the cancel
\* check of a record whose number is a multiple of CANCEL_CHECK_INTERVAL;
\* there the driver drops the encoder, then removes the file, then returns
\* "Cancelled", and that record is never handed to write_row: the records
\* before it were written whole, it and the later ones were never started.
C10_CancelPath ==
    /\ pc = "cancel_drop" =>
         /\ row_count > 0 /\ row_count % CANCEL_CHECK_INTERVAL = 0
         /\ zsav = "open" /\ file_exists
    /\ pc = "cancel_remove" => zsav = "dropped" /\ file_exists
    /\ pc \in {"cancel_drop", "cancel_remove"} =>
         /\ cancelled /\ result = ""
         /\ row_started = row_count - 1 /\ rows_written = row_count - 1
    /\ (pc = "done" /\ result = "Cancelled" /\ row_count > 0) =>
         /\ zsav = "dropped" /\ ~file_exists
         /\ row_count % CANCEL_CHECK_INTERVAL = 0
         /\ row_started = row_count - 1 /\ rows_written = row_count - 1
C10_CancelSteps ==
    /\ (pc = "cancel_check" /\ cancelled /\ row_count % CANCEL_CHECK_INTERVAL = 0)
         => pc' = "cancel_drop"
    /\ (pc = "cancel_check" /\ row_count % CANCEL_CHECK_INTERVAL # 0)
         => pc' = "write" \/ pc' = pc
    /\ (pc # "cancel_drop" /\ pc' = "cancel_drop") => pc = "cancel_check"
    /\ pc = "cancel_drop" => (pc' = "cancel_remove" /\ zsav' = "dropped" /\ file_exists')
    /\ pc = "cancel_remove" => (pc' = "done" /\ result' = "Cancelled" /\ ~file_exists')
    /\ (row_count > 0 /\ result = "" /\ result' = "Cancelled") => pc = "cancel_remove"
C10_CancelAtRowBoundary == [](C10_CancelPath) /\ [][C10_CancelSteps]_vars

\* C10 witness: cancelled at the second check, after 1999 rows were written.
C10_Witness ==
    /\ pc = "done" /\ result = "Cancelled"
    /\ row_count = 2 * CANCEL_CHECK_INTERVAL
    /\ rows_written = row_count - 1
    /\ zsav = "dropped" /\ ~file_exists

\* C11: the row count given to Writer::new_zsav is the counting pass's
\* result and is given before any row is written; when the conversion
\* returns Ok it equals the number of write_row calls, the returned
\* row_count and the number of records of the source, and it is not -1.
C11_ExactRowCount ==
    /\ zsav # "none" => (ncases = total_rows /\ ncases >= 0)
    /\ zsav = "none" => (ncases = -2 /\ rows_written = 0)
    /\ (pc = "done" /\ result = "Ok") =>
         (ncases = rows_written /\ ncases = row_count /\ ncases = src_rows)

\* C11 witness: a conversion of a source with records has returned Ok.
C11_Witness ==
    pc = "done" /\ result = "Ok" /\ rows_written > CANCEL_CHECK_INTERVAL

\* What a reader of the source sees of each of Fields: its trimmed length
\* and whether its trimmed text is a double.
TrimmedLen == [f \in FieldIds |-> Len(trim(Fields[f]))]
IsDouble == [f \in FieldIds |-> parse_is_ok(trim(Fields[f]))]

\* The fields (by index) of column i in the records observed so far, those
\* empty after trimming left out; the largest of a set of lengths (0 for
\* none).
ObservedFields(i) ==
    {f \in {csv_src.records[observed[k]][i] : k \in 1..Len(observed)} :
        TrimmedLen[f] > 0}
MaxOf(S) == IF S = {} THEN 0 ELSE CHOOSE m \in S : \A x \in S : x <= m

\* C12: is_numeric starts true and, once false, no observe sets it back to
\* true; max_byte_len never decreases and is the largest trimmed byte length
\* of the non-empty fields observed so far.
C12_State ==
    \A i \in 1..Len(col_infos) :
        /\ observed = <<>> => col_infos[i].is_numeric
        /\ col_infos[i].max_byte_len = MaxOf({TrimmedLen[f] : f \in ObservedFields(i)})
C12_Step ==
    \A i \in 1..Len(col_infos) :
        /\ col_infos'[i].is_numeric => col_infos[i].is_numeric
        /\ col_infos'[i].max_byte_len >= col_infos[i].max_byte_len
C12_ColInfoMonotone == [](C12_State) /\ [][C12_Step]_vars

\* C12 witness: a column that saw a non-numeric field and then a numeric one
\* is still non-numeric.
C12_Witness ==
    /\ Len(observed) = 2
    /\ ~IsDouble[csv_src.records[1][1]]
    /\ TrimmedLen[csv_src.records[1][1]] > 0
    /\ IsDouble[csv_src.records[2][1]]
    /\ ~col_infos[1].is_numeric

\* C13: in the schema returned, a column is Numeric exactly when none of its
\* non-empty trimmed observed fields failed to parse as a double (so a column
\* of empty fields is Numeric); otherwise it is String(w) with w the largest
\* trimmed byte length brought into [1, 32767].
C13_ColType ==
    inf_result = "Ok" =>
      /\ Len(schema.col_types) = Len(csv_src.headers)
      /\ \A i \in 1..Len(schema.col_types) :
           LET failed == \E f \in ObservedFields(i) : ~IsDouble[f]
               longest == MaxOf({TrimmedLen[f] : f \in ObservedFields(i)})
               ty == schema.col_types[i]
           IN  IF failed
               THEN /\ ty.kind = "String"
                    /\ ty.w \in 1..MAX_STRING_WIDTH
                    /\ ty.w = (IF longest < 1 THEN 1
                               ELSE IF longest > MAX_STRING_WIDTH
                                    THEN MAX_STRING_WIDTH ELSE longest)
               ELSE ty = SchemaNumeric

\* C13 witness: a schema with a string column whose longest field is over
\* the cap, inferred from a source that also has an all-empty numeric column
\* or a second record.
C13_Witness ==
    /\ inf_result = "Ok"
    /\ \E i \in 1..Len(schema.col_types) :
         /\ schema.col_types[i].kind = "String"
         /\ col_infos[i].max_byte_len > MAX_STRING_WIDTH
    /\ Len(observed) = 2

\* The headers at the positions of S, in header order.
RECURSIVE HeadersAt(_, _, _)
HeadersAt(hs, S, i) ==
    IF i > Len(hs) THEN <<>>
    ELSE (IF i \in S THEN <<hs[i]>> ELSE <<>>) \o HeadersAt(hs, S, i + 1)

\* C14 (as claimed): in the schema returned, truncated_cols lists, in header
\* order, exactly the headers of the columns whose max_byte_len exceeds 32767
\* (stated for the calls that ask for at least one record).
C14_TruncatedColsAllWide ==
    (inf_result = "Ok" /\ sample_rows >= 1) =>
      schema.truncated_cols =
        HeadersAt(schema.headers,
                  {i \in 1..Len(col_infos) :
                      col_infos[i].max_byte_len > MAX_STRING_WIDTH}, 1)

\* C14 (amended): truncated_cols lists, in header order, exactly the headers
\* of the String columns whose max_byte_len exceeds 32767, and each of them
\* has the width 32767 in the schema returned.
C14_TruncatedCols ==
    inf_result = "Ok" =>
      LET wide == {i \in 1..Len(col_infos) :
                      /\ schema.col_types[i].kind = "String"
                      /\ col_infos[i].max_byte_len > MAX_STRING_WIDTH}
      IN  /\ schema.truncated_cols = HeadersAt(schema.headers, wide, 1)
          /\ \A i \in wide : schema.col_types[i] = SchemaString(MAX_STRING_WIDTH)

\* C14 witness: a schema of two columns was returned with one of them
\* recorded as truncated.
C14_Witness ==
    /\ inf_result = "Ok"
    /\ Len(schema.headers) = 2
    /\ Len(schema.truncated_cols) = 1

\* The schema infer_schema returns for the source cut down to its first n
\* records, were every one of them observed.
RECURSIVE ObserveAll(_, _, _)
ObserveAll(infos, src, n) ==
    IF n = 0 THEN infos
    ELSE observe_record(ObserveAll(infos, src, n - 1), RecordOf(src, n))
TypesOfFirst(src, n) ==
    LET infos == ObserveAll([i \in 1..Len(src.headers) |-> ColInfo_new], src,
                            Min(n, Len(src.records)))
    IN  [i \in 1..Len(infos) |-> ColInfo_col_type(infos[i])]

\* C15 (as claimed): for every sample_rows, 0 included, no record beyond the
\* sample_rows-th is observed, and the col_types returned are those of the
\* header row and the first sample_rows records.
C15_AtMostSampleRows ==
    /\ \A k \in 1..Len(observed) : observed[k] <= sample_rows
    /\ inf_result = "Ok" => schema.col_types = TypesOfFirst(csv_src, sample_rows)

\* The same for the calls that ask for at least one record.
C15_HoldsFromOne ==
    sample_rows >= 1 =>
      /\ \A k \in 1..Len(observed) : observed[k] <= sample_rows
      /\ inf_result = "Ok" => schema.col_types = TypesOfFirst(csv_src, sample_rows)

\* C16: the cancel flag is loaded once for every record the reader yields,
\* before the record is processed; when the load finds it set, infer_schema
\* returns Err("Cancelled") without observing that record or any later one
\* and without a CsvSchema.
C16_State ==
    /\ inf_pc = "cancel_check" => cancel_loads = yielded - 1
    /\ inf_pc \in {"next", "observe", "collect"} => cancel_loads = yielded
    /\ Len(observed) <= cancel_loads
    /\ inf_result = "Cancelled" =>
         /\ inf_pc = "done" /\ inf_cancelled
         /\ cancel_loads = yielded
         /\ \A k \in 1..Len(observed) : observed[k] < yielded
         /\ schema.headers = <<>> /\ schema.col_types = <<>>
C16_Step ==
    /\ (inf_pc = "cancel_check" /\ inf_cancelled) =>
         (inf_result' = "Cancelled" /\ inf_pc' = "done"
          /\ UNCHANGED <<observed, col_infos>>)
    /\ inf_result = "Cancelled" => UNCHANGED <<observed, col_infos, schema>>
C16_CancelPerRecord == [](C16_State) /\ [][C16_Step]_vars

\* C16 witness: the flag was found set at the second record, after the first
\* had been observed.
C16_Witness ==
    inf_result = "Cancelled" /\ yielded = 2 /\ observed = <<1>>

\* The number a string of decimal digits writes; -1 if it is not one, or if
\* it has a leading zero.
RECURSIVE DecimalValue(_)
DecimalValue(ds) ==
    IF ds = <<>> THEN 0
    ELSE 10 * DecimalValue(SubSeq(ds, 1, Len(ds) - 1)) + (ds[Len(ds)] - 48)
ReadDecimal(ds) ==
    IF ds = <<>> \/ (\E k \in 1..Len(ds) : ~IsDigit(ds[k]))
       \/ (Len(ds) > 1 /\ ds[1] = 48)
    THEN -1 ELSE DecimalValue(ds)

\* C17: make_col_defs returns one ColDef per schema column in header order:
\* the one at position i (counted from 1) is named "V" followed by the
\* decimal of i, whatever the headers are, has the header as its label and
\* the schema's column type as its type; the names are pairwise distinct.
C17_ColDefs ==
    cd_pc = "done" =>
      /\ Len(col_defs) = Len(cd_schema.headers)
      /\ \A i \in 1..Len(col_defs) :
           /\ Len(col_defs[i].name) >= 2
           /\ col_defs[i].name[1] = 86
           /\ ReadDecimal(Tail(col_defs[i].name)) = i
           /\ col_defs[i].label = cd_schema.headers[i]
           /\ col_defs[i].col_type = cd_schema.col_types[i]
      /\ \A i, j \in 1..Len(col_defs) :
           col_defs[i].name = col_defs[j].name => i = j

\* C17 witness: column definitions with a two-digit name, made from a schema
\* whose headers all read "V1".
C17_Witness ==
    /\ cd_pc = "done"
    /\ Len(col_defs) >= 10
    /\ col_defs[10].name = <<86, 49, 48>>
    /\ \A i \in 1..Len(col_defs) : col_defs[i].label = <<86, 49>>

\* C18: on_progress has been called exactly once for every positive multiple
\* of PROGRESS_INTERVAL among the rows whose iteration got past write_row,
\* in increasing order and for no other row; the bytes_read reported never
\* decrease and file_size is the schema's in every call.  A call is made
\* only by the step that follows a successful write_row.
C18_State ==
    LET past == IF pc = "progress" THEN rows_written - 1 ELSE rows_written
    IN  /\ Len(progress) = past \div PROGRESS_INTERVAL
        /\ \A k \in 1..Len(progress) :
             /\ progress[k].row_count = k * PROGRESS_INTERVAL
             /\ progress[k].row_count <= rows_written
             /\ progress[k].file_size = file_size
        /\ \A j, k \in 1..Len(progress) :
             j < k => /\ progress[j].row_count < progress[k].row_count
                      /\ progress[j].bytes_read <= progress[k].bytes_read
C18_Step ==
    /\ progress' # progress =>
         /\ pc = "progress" /\ rows_written = row_count
         /\ \E call \in {on_progress(row_count, bytes_read, file_size)} :
              progress' = Append(progress, call)
    /\ file_size' = file_size
C18_Progress == [](C18_State) /\ [][C18_Step]_vars

\* C18 witness: a conversion that reported progress twice, with more bytes
\* read at the second call, has returned Ok.
C18_Witness ==
    /\ pc = "done" /\ result = "Ok"
    /\ Len(progress) = 2
    /\ progress[1].bytes_read < progress[2].bytes_read

\* The byte offsets at which a code point of s starts or s ends, found by
\* walking s from the front by the length each lead byte announces.
CodePointLen(lead) ==
    IF lead < 128 THEN 1 ELSE IF lead < 224 THEN 2 ELSE IF lead < 240 THEN 3 ELSE 4
RECURSIVE Boundaries(_, _)
Boundaries(s, pos) ==
    IF pos >= Len(s) THEN {Len(s)}
    ELSE {pos} \cup Boundaries(s, pos + CodePointLen(s[pos + 1]))

\* The longest prefix of s of at most w bytes that ends on a boundary.
LongestPrefix(s, w) ==
    SubSeq(s, 1, MaxOf({b \in Boundaries(s, 0) : b <= w}))

\* The trimmed field of column i of the record ("" when the record is short).
OwnField(i) == trim(IF i <= Len(record) THEN record[i] ELSE <<>>)

\* C19: once the fields are prepared, the buffer of every String(w) column
\* holds its trimmed field unchanged when that has at most w bytes, and
\* otherwise the longest prefix of at most w bytes that ends on a code-point
\* boundary; that buffer is what the row's value carries to the encoder.
C19_TruncateUtf8 ==
    row_pc \in {"values", "done"} =>
      \A i \in 1..Len(col_types) :
        col_types[i].kind = "String" =>
          LET f == OwnField(i)
              w == col_types[i].w
          IN  /\ Len(f) <= w => string_buf[i] = f
              /\ string_buf[i] = LongestPrefix(f, w)
              /\ Len(string_buf[i]) \in Boundaries(f, 0)
              /\ row_pc = "done" => row_values[i] = Str(string_buf[i])

\* C19 witness: a field was cut short of the column width because the width
\* falls inside a multi-byte sequence.
C19_Witness ==
    /\ row_pc = "done"
    /\ \E i \in 1..Len(col_types) :
         /\ col_types[i].kind = "String"
         /\ Len(OwnField(i)) > col_types[i].w
         /\ Len(row_values[i].bytes) < col_types[i].w
         /\ Len(row_values[i].bytes) > 0

\* C20: in the row's values, a Numeric column whose field is empty after
\* trimming, missing from the record or not parsable is Number(None); the
\* mapping still yields one value per column, and every other column has
\* the value of its own field: a parsable number is Some of the double its
\* digits write, a string column carries its prepared text.
C20_NumericFallback ==
    row_pc = "done" =>
      /\ Len(row_values) = Len(col_types)
      /\ \A i \in 1..Len(col_types) :
           LET f == OwnField(i)
           IN  IF col_types[i].kind = "String"
               THEN row_values[i] = Str(LongestPrefix(f, col_types[i].w))
               ELSE IF f = <<>> \/ ~parse_is_ok(f)
               THEN row_values[i] = Number(None)
               ELSE LET v == row_values[i].opt.v
                        point == {k \in 1..Len(f) : f[k] = 46}
                        frac == IF point = {} THEN 0
                                ELSE Len(f) - MaxOf(point)
                        sign == IF f[1] = 45 THEN -1 ELSE 1
                    IN  /\ row_values[i].tag = "Number"
                        /\ row_values[i].opt.some
                        /\ v.m * 2^(v.x + frac) * 5^frac
                             = sign * DecimalValue(SelectSeq(f, IsDigit))

\* C20 witness: a row whose first column is numeric with a field that does
\* not parse and whose second column is numeric with a field that does.
C20_Witness ==
    /\ row_pc = "done"
    /\ col_types = <<SchemaNumeric, SchemaNumeric>>
    /\ record = << <<49, LetterH>>, <<SP, 45, 50, 46, 53, SP>> >>
    /\ row_values = <<Number(None), Number(Some(Norm(-5, -1)))>>

\* A reader of the dictionary: the records from byte offset pos on, up to the
\* first one that is not a variable record, as [type_code, has_label]; a
\* variable record is 32 bytes, followed when it has a label by the label's
\* length and the label padded to a multiple of 4.  end is the offset where
\* the reading stopped.
RECURSIVE ReadVariableRecords(_, _)
ReadVariableRecords(buf, pos) ==
    IF Len(buf) < pos + 32 \/ read_i32(buf, pos) # REC_TYPE_VARIABLE
    THEN [recs |-> <<>>, end |-> pos]
    ELSE LET has_label == read_i32(buf, pos + 8)
             label_len == IF has_label = 1 /\ Len(buf) >= pos + 36
                          THEN read_i32(buf, pos + 32) ELSE 0
             next == IF has_label = 1
                     THEN pos + 36 + 4 * ((label_len + 3) \div 4)
                     ELSE pos + 32
             rest == ReadVariableRecords(buf, next)
         IN  [recs |-> <<[type_code |-> read_i32(buf, pos + 4),
                          has_label |-> has_label]>> \o rest.recs,
              end |-> rest.end]

\* The type codes a reader expects for one column: the primary record's,
\* then -1 for each further segment.
ExpectedTypeCodes(col_type) ==
    <<IF col_type.kind = "Numeric" THEN 0 ELSE col_type.w>>
    \o Rep(-1, SegmentsOf(col_type) - 1)

\* C21: the dictionary holds, for each column in declaration order, a
\* primary variable record (type_code 0 or w) followed for String(w) by
\* ceil(w/8) - 1 continuation records (type_code -1, no label); the number
\* of variable records is nominal_case_size; the dictionary ends with the
\* i32 999 and the i32 0.
C21_Dictionary ==
    LET dict == SubSeq(writer, 1, dict_len)
        r == ReadVariableRecords(dict, 176)
    IN  /\ [k \in 1..Len(r.recs) |-> r.recs[k].type_code]
             = Flatten([i \in 1..Len(cols) |-> ExpectedTypeCodes(cols[i].col_type)])
        /\ \A k \in 1..Len(r.recs) :
             r.recs[k].type_code = -1 => r.recs[k].has_label = 0
        /\ Len(r.recs) = read_i32(dict, 68)
        /\ r.end + 8 = dict_len
        /\ read_i32(dict, r.end) = REC_TYPE_DICT_TERMINATOR
        /\ read_i32(dict, r.end + 4) = 0

\* C21 witness: a dictionary of two labelled columns, the second a string of
\* three segments.
C21_Witness ==
    /\ Len(cols) = 2
    /\ cols[1].label # <<>>
    /\ cols[2].col_type.kind = "String"
    /\ SegmentsOf(cols[2].col_type) = 3
    /\ sav_rows > 0

\* The segments pushed since the last flush, oldest first.
Pending ==
    SubSeq(pushed, Len(pushed) - opcode_count + 1, Len(pushed))

\* C22: with the writer open (after new and after every write_row),
\* 0 <= opcode_count <= 7; opcode_buf[0..opcode_count] are the pending
\* opcodes; raw_buf holds the 8 bytes of each pending OP_RAW, in order, and
\* is empty when nothing is pending; the unused slots of opcode_buf are 0.
C22_PendingBlock ==
    sav_pc = "open" =>
        /\ opcode_count \in 0..7
        /\ opcode_count <= Len(pushed)
        /\ Len(opcode_buf) = 8
        /\ \A k \in 1..opcode_count : opcode_buf[k] = Pending[k].op
        /\ raw_buf = Flatten([k \in 1..opcode_count |-> Pending[k].raw])
        /\ Len(raw_buf)
             = 8 * Cardinality({k \in 1..opcode_count : opcode_buf[k] = OP_RAW})
        /\ (opcode_count = 0 => raw_buf = <<>>)
        /\ \A k \in (opcode_count + 1)..8 : opcode_buf[k] = 0

\* C22 witness: a block was flushed, and the pending block holds a raw
\* segment and a segment without payload.
C22_Witness ==
    /\ sav_pc = "open"
    /\ Len(pushed) > 8
    /\ opcode_count > 1
    /\ \E k \in 1..opcode_count : opcode_buf[k] = OP_RAW
    /\ \E k \in 1..opcode_count : opcode_buf[k] # OP_RAW

\* The original reading of C23's bound: once the flag is set, at most
\* CANCEL_CHECK_INTERVAL - 1 further rows are passed to write_row.
C23_AtMostIntervalMinusOne ==
    rows_at_cancel >= 0 =>
        rows_written - rows_at_cancel <= CANCEL_CHECK_INTERVAL - 1

\* C23: in the writing pass the flag makes the conversion return only at a
\* row count that is a positive multiple of CANCEL_CHECK_INTERVAL; once the
\* flag is set, at most CANCEL_CHECK_INTERVAL further rows are passed to
\* write_row, and a conversion that returns then returns Err("Cancelled")
\* with the output file gone, or, the source exhausted first, Ok with every
\* record written and the output file kept, or the error of a failed I/O
\* step.
C23_BoundedCancel ==
    /\ pc \in {"cancel_drop", "cancel_remove"} =>
          /\ cancelled
          /\ row_count > 0
          /\ row_count % CANCEL_CHECK_INTERVAL = 0
    /\ rows_at_cancel >= 0 =>
          /\ cancelled
          /\ rows_written - rows_at_cancel <= CANCEL_CHECK_INTERVAL
          /\ pc = "done" =>
                \/ result = "Cancelled" /\ ~file_exists
                \/ /\ result = "Ok"
                   /\ row_count = src_rows
                   /\ rows_written = src_rows
                   /\ file_exists
                   /\ zsav = "finished"
                \/ result \in {"ErrCount", "ErrCreate", "ErrInit", "ErrOpen",
                               "ErrRead", "ErrWrite", "ErrFinish"}

\* C23 witness: the flag was set during the writing pass, after rows had
\* been written, and the conversion returned Err("Cancelled") at the next
\* check, further rows having been written in between.
C23_Witness ==
    /\ pc = "done"
    /\ result = "Cancelled"
    /\ rows_at_cancel > 0
    /\ rows_written > rows_at_cancel
    /\ row_count = rows_written + 1

\* A cancel request meant for a running conversion stays visible to it: the
\* flag is set for as long as the conversion runs.
C24_CancelStaysVisible ==
    \A t \in Invocations : aimed[t] /\ Running(t) => cancel_flag

\* Only a conversion a cancel request was meant for returns "Cancelled".
C24_OnlyAimedCancelled ==
    \A t \in Invocations : lib_result[t] = "Cancelled" => aimed[t]

\* C24: under interleaving of convert_csv_to_sav and cancel_conversion, a
\* cancel request stored while a conversion runs stays visible to it until
\* it observes it (nothing resets the flag in between), and a cancel request
\* meant for one conversion does not cancel another one running with it.
C24_CancelPerConversion ==
    C24_CancelStaysVisible /\ C24_OnlyAimedCancelled

\* The headers listed in truncated_cols.
TruncatedHeaders ==
    {schema.truncated_cols[j] : j \in 1..Len(schema.truncated_cols)}

\* C25: with the schema inferred by unbounded sampling, the writing pass
\* over the same source agrees with it: in a Numeric column every field not
\* empty after trimming parses as a double, so the value is system-missing
\* exactly for the empty fields; in a String(w) column not listed in
\* truncated_cols every trimmed field has at most w bytes, so truncate_utf8
\* shortens values of listed columns only.
C25_WritingPassAgrees ==
    (inf_result = "Ok" /\ sample_rows = SAMPLE_ROWS) =>
        \A k \in 1..Len(csv_src.records) :
            LET rec == RecordOf(csv_src, k)
                tys == schema.col_types
                buf == fill_string_buf(tys, rec)
                vals == map_values(tys, buf)
            IN  \A i \in 1..Len(tys) :
                    LET field == field_of(rec, i)
                    IN  IF tys[i].kind = "Numeric"
                        THEN /\ field # <<>> => parse_is_ok(field)
                             /\ vals[i] = Number(None) <=> field = <<>>
                        ELSE /\ vals[i] = Str(buf[i])
                             /\ schema.headers[i] \notin TruncatedHeaders =>
                                   Len(field) <= tys[i].w
                             /\ buf[i] # field =>
                                   schema.headers[i] \in TruncatedHeaders

\* C25 witness: a schema inferred by unbounded sampling from two records of
\* two columns: a Numeric column with an empty and a non-empty field, and a
\* String column listed in truncated_cols.
C25_Witness ==
    /\ inf_result = "Ok"
    /\ sample_rows = SAMPLE_ROWS
    /\ Len(csv_src.records) = 2
    /\ Len(schema.col_types) = 2
    /\ schema.col_types[1].kind = "Numeric"
    /\ \E k \in 1..2 : TrimmedLen[csv_src.records[k][1]] = 0
    /\ \E k \in 1..2 : TrimmedLen[csv_src.records[k][1]] > 0
    /\ schema.col_types[2].kind = "String"
    /\ schema.truncated_cols # <<>>

====
